---- MODULE Spec2Model ----
(***************************************************************************)
(* The interactive memory chatbot (the REPL of src/aiChat.js, the vector   *)
(* store of src/test.js and the summarizer/extractor of                    *)
(* src/memoryProcessor.js) as a state machine.                             *)
(*                                                                         *)
(* Text is a sequence of one-character strings, so that trim, lower-case,  *)
(* split, word count and length are computed as the JavaScript computes    *)
(* them.  Every 'line' event of readline starts an async handler; a        *)
(* handler runs without interruption up to its next pending external call  *)
(* (Generation Service, Embedding Service, Vector Backend), and one action *)
(* of the model is one such run.  The external call then returns with a    *)
(* value or with an error, which is the next action of that handler.       *)
(***************************************************************************)
EXTENDS Integers, Sequences, FiniteSets, TLC

(***************************************************************************)
(* Program constants and bounds of the model                               *)
(***************************************************************************)
CACHE_LIMIT == 7

SEARCH_LIMIT == 3

\* the turns of context reformulateQuery uses
CONTEXT_TURNS == 4

\* the limit runTest passes to searchMemories
TEST_LIMIT == 2

\* a chat line is read only while RollingSummary is at most this long
MaxSummaryLen == 1

\* a chat line is read only while the buffer holds at most this many turns
MaxCacheLen == 6

\* a process line is read only while the store holds fewer memories than this
MaxStore == 1

\* a direct storeMemories call is made only while the records in the store and
\* the chunks of the call together are at most this many, and so for the chunks
\* the caller has stored since its last clear
MaxRecords == 3

\* the clock stops at this value
MaxClock == 1

\* in a session of the chat program the clock stops at this value
MaxSessionClock == 0

\* the slots of the line handlers: two lines can be in progress at a time
Handlers == {1, 2}

(***************************************************************************)
(* Text                                                                    *)
(***************************************************************************)
\* The characters of a text are those of U+0000 to U+00FF, the ones a string
\* of this module can hold.
\* the white space of String.prototype.trim and of \s among them: space, line
\* feed, tab, carriage return, form feed, vertical tab (U+000B, written as
\* the character itself) and no-break space (U+00A0)
IsSpace(c) == c \in {" ", "\n", "\t", "\r", "\f", "", " "}

\* String.prototype.toLowerCase, one character: the upper-case letters of
\* U+0000 to U+00FF are A to Z and U+00C0 to U+00DE without the
\* multiplication sign U+00D7
LowerChar(c) ==
    LET upper == <<"A", "B", "C", "D", "E", "F", "G", "H", "I", "J", "K", "L", "M",
                   "N", "O", "P", "Q", "R", "S", "T", "U", "V", "W", "X", "Y", "Z",
                   "À", "Á", "Â", "Ã", "Ä", "Å", "Æ", "Ç", "È", "É", "Ê", "Ë", "Ì",
                   "Í", "Î", "Ï", "Ð", "Ñ", "Ò", "Ó", "Ô", "Õ", "Ö", "Ø", "Ù", "Ú",
                   "Û", "Ü", "Ý", "Þ">>
        lower == <<"a", "b", "c", "d", "e", "f", "g", "h", "i", "j", "k", "l", "m",
                   "n", "o", "p", "q", "r", "s", "t", "u", "v", "w", "x", "y", "z",
                   "à", "á", "â", "ã", "ä", "å", "æ", "ç", "è", "é", "ê", "ë", "ì",
                   "í", "î", "ï", "ð", "ñ", "ò", "ó", "ô", "õ", "ö", "ø", "ù", "ú",
                   "û", "ü", "ý", "þ">>
    IN  IF \E i \in DOMAIN upper : upper[i] = c
        THEN lower[CHOOSE i \in DOMAIN upper : upper[i] = c]
        ELSE c

ToLowerCase(s) == [i \in DOMAIN s |-> LowerChar(s[i])]

RECURSIVE TrimStart(_)
TrimStart(s) ==
    IF s # <<>> /\ IsSpace(Head(s)) THEN TrimStart(Tail(s)) ELSE s

RECURSIVE TrimEnd(_)
TrimEnd(s) ==
    IF s # <<>> /\ IsSpace(s[Len(s)]) THEN TrimEnd(SubSeq(s, 1, Len(s) - 1)) ELSE s

\* String.prototype.trim
Trim(s) == TrimEnd(TrimStart(s))

\* the literals of the program
PROCESS_CMD == <<"p", "r", "o", "c", "e", "s", "s">>

\* case 'exit': case 'quit':
EXIT_CMDS == { <<"e", "x", "i", "t">>, <<"q", "u", "i", "t">> }

HELP_CMD == <<"h", "e", "l", "p">>

MEMORIES_CMD == <<"m", "e", "m", "o", "r", "i", "e", "s">>

CACHE_CMD == <<"c", "a", "c", "h", "e">>

SUMMARIES_CMD == <<"s", "u", "m", "m", "a", "r", "i", "e", "s">>

CLEAR_CMD == <<"c", "l", "e", "a", "r">>

\* the prompt of the readline interface
PROMPT == "> "

CONFIRM_WORD == <<"c", "o", "n", "f", "i", "r", "m">>

SEED_PREFIX ==
    <<"P", "r", "e", "v", "i", "o", "u", "s", " ",
      "c", "o", "n", "v", "e", "r", "s", "a", "t", "i", "o", "n", " ",
      "c", "o", "n", "t", "e", "x", "t", ":", " ">>

SEPARATOR == <<"\n", "\n">>

\* the parts of two adjacent stretches of a text, put together: the last part
\* of the left stretch continues in the first part of the right one
MergeParts(left, right) ==
    SubSeq(left, 1, Len(left) - 1)
    \o <<left[Len(left)] \o right[1]>>
    \o SubSeq(right, 2, Len(right))

RECURSIVE SplitOnIn(_, _, _, _)
\* the parts of s[lo..hi] between the occurrences of ch
SplitOnIn(s, ch, lo, hi) ==
    IF lo > hi THEN << <<>> >>
    ELSE IF lo = hi
         THEN IF s[lo] = ch THEN << <<>>, <<>> >> ELSE << <<s[lo]>> >>
         ELSE LET mid == (lo + hi) \div 2
              IN  MergeParts(SplitOnIn(s, ch, lo, mid), SplitOnIn(s, ch, mid + 1, hi))

\* String.prototype.split(ch), ch one character
SplitOn(s, ch) == SplitOnIn(s, ch, 1, Len(s))

RECURSIVE SplitSpaceIn(_, _, _)
\* the parts of s[lo..hi] between its white-space characters
SplitSpaceIn(s, lo, hi) ==
    IF lo > hi THEN << <<>> >>
    ELSE IF lo = hi
         THEN IF IsSpace(s[lo]) THEN << <<>>, <<>> >> ELSE << <<s[lo]>> >>
         ELSE LET mid == (lo + hi) \div 2
              IN  MergeParts(SplitSpaceIn(s, lo, mid), SplitSpaceIn(s, mid + 1, hi))

IsWord(part) == part # <<>>

\* String.prototype.split(/\s+/): a run of white space is one separator, so of
\* the empty parts only one at the start and one at the end remain
SplitWs(s) ==
    LET parts == SplitSpaceIn(s, 1, Len(s))
        n == Len(parts)
    IN  IF n <= 2 THEN parts
        ELSE <<parts[1]>> \o SelectSeq(SubSeq(parts, 2, n - 1), IsWord) \o <<parts[n]>>

RECURSIVE Join(_, _)
\* Array.prototype.join(sep)
Join(parts, sep) ==
    IF parts = <<>> THEN <<>>
    ELSE IF Len(parts) = 1 THEN parts[1]
         ELSE parts[1] \o sep \o Join(Tail(parts), sep)

\* Array.prototype.slice(0, n)
Take(seq, n) == SubSeq(seq, 1, IF Len(seq) < n THEN Len(seq) ELSE n)

\* mutant: the whole array
WholeArray(seq, n) == seq

\* Array.prototype.slice(-n)
LastN(seq, n) == SubSeq(seq, IF Len(seq) > n THEN Len(seq) - n + 1 ELSE 1, Len(seq))

(***************************************************************************)
(* Fact extraction: the parsing half of processConversations               *)
(***************************************************************************)
MIN_WORDS == 10

MAX_WORDS == 200

TOPIC_MIN_LEN == 5

MAX_TOPICS == 3

WordCount(chunk) == Len(SplitWs(chunk))

\* mutant: the filter has no upper bound
KeepChunkAnyLength(chunk) == WordCount(chunk) >= MIN_WORDS

KeepChunk(chunk) == WordCount(chunk) >= MIN_WORDS /\ WordCount(chunk) <= MAX_WORDS

NonEmpty(chunk) == Len(chunk) > 0

TrimAll(parts) == [i \in DOMAIN parts |-> Trim(parts[i])]

\* narrativeText.split('|').map(trim).filter(non-empty).filter(word count)
ChunkTexts(narrativeText) ==
    SelectSeq(SelectSeq(TrimAll(SplitOn(narrativeText, "|")), NonEmpty), KeepChunk)

IsTopic(word) == Len(word) > TOPIC_MIN_LEN

Topics(narrative) ==
    Take(SelectSeq(SplitWs(ToLowerCase(narrative)), IsTopic), MAX_TOPICS)

\* the metadata of a chunk created when the clock reads t
ChunkMetadata(narrative, t) ==
    LET base == [timestamp |-> t,
                 source |-> "conversation_summary",
                 chunk_length |-> Len(narrative)]
        topics == Topics(narrative)
    IN  IF Len(topics) > 0
        THEN [timestamp |-> base.timestamp, source |-> base.source,
              chunk_length |-> base.chunk_length,
              topics |-> Join(topics, <<",", " ">>)]
        ELSE base

MakeChunk(narrative, t) ==
    [narrative |-> narrative, metadata |-> ChunkMetadata(narrative, t)]

\* what processConversations makes of the text the Generation Service gave;
\* the clock is read once for each chunk, and ts holds the readings in order
ParseChunks(content, ts) ==
    LET texts == ChunkTexts(Trim(content))
    IN  [i \in DOMAIN texts |-> MakeChunk(texts[i], ts[i])]

(***************************************************************************)
(* Inputs: the lines typed and what the external services answer           *)
(***************************************************************************)
Lines ==
    { <<"h", "i">>,
      <<" ", "h", "i", " ">>,
      PROCESS_CMD,
      <<"P", "r", "o", "c", "e", "s", "s", " ">>,
      CACHE_CMD,
      SUMMARIES_CMD }

\* message.content of the reformulation call, before trim()
ReformulateOutputs == { <<"q">>, <<" ", "q", "\n">> }

\* message.content of the reply call
Replies == { <<"o", "k">> }

\* message.content of a summarization call
Summaries == { <<>>, <<"s">> }

\* ten words, of which four are longer than five characters and two of these
\* are the same word
FactA == <<"u", " ", "l", "i", "k", "e", "s", " ", "P", "y", "t", "h",
           "o", "n", " ", "a", " ", "P", "y", "t", "h", "o", "n", " ",
           "b", " ", "c", "o", "d", "i", "n", "g", " ", "c", " ", "n",
           "u", "r", "s", "i", "n", "g", " ", "d">>

FactB == <<"u", " ", "i", "s", " ", "a", " ", "n", "u", "r", "s", "e", " ",
           "i", "n", " ", "a", " ", "b", "i", "g", " ", "c", "i", "t", "y", " ",
           "o", "f", " ", "u">>

ShortFact == <<"u", " ", "a">>

RECURSIVE WordsOf(_)
\* a text of n one-letter words separated by single spaces
WordsOf(n) ==
    IF n <= 1 THEN <<"w">>
    ELSE WordsOf(n \div 2) \o <<" ">> \o WordsOf(n - (n \div 2))

\* fragments at the edges of the word-count filter
NineWords == WordsOf(MIN_WORDS - 1)

LongestFact == WordsOf(MAX_WORDS)

TooLongFact == WordsOf(MAX_WORDS + 1)

\* message.content of the extraction call
ExtractOutputs ==
    { <<>>,
      ShortFact,
      <<" ">> \o FactA \o <<" ", "|", " ">> \o ShortFact \o <<"|", "|">>
          \o TooLongFact \o <<"|">> \o LongestFact \o <<" ", "|">> \o NineWords \o <<"\n">> }

\* the parse of each answer, computed once: it depends on the text only
ParsedOutputs ==
    [content \in ExtractOutputs |->
        ParseChunks(content, [i \in 1..(Len(content) + 1) |-> 0])]

\* what processConversations returns for the answer content when the clock
\* reads ts[i] at the creation of chunk i: the parse of the answer, stamped
BuildChunks(content, ts) ==
    [i \in DOMAIN ParsedOutputs[content] |->
        [ParsedOutputs[content][i] EXCEPT !.metadata.timestamp = ts[i]]]

(***************************************************************************)
(* State                                                                   *)
(***************************************************************************)
VARIABLES
    conversationCache,  \* the conversation buffer: a sequence of turns
    currentSummary,     \* RollingSummary
    client,             \* vectorDB: the ChromaClient has been constructed
    collection,         \* vectorDB: the collection handle is non-null
    store,              \* the records of the backend collection, in its order
    hs,                 \* per line handler or caller of the exported functions:
                        \* where it is suspended, its locals, and for a caller
                        \* what its last call gave back
    console,            \* what the last step printed: its console.error lines,
                        \* of its console.log lines the listings and the
                        \* outcome lines of the commands, and the prompt
    now                 \* the clock, in milliseconds: it feeds the timestamps
                        \* and the ids only, and a session keeps it fixed

vars == <<conversationCache, currentSummary, client, collection, store, hs,
          console, now>>

\* summarized is the buffer as summarizeConversation read it when the handler
\* called it.  limit and count are locals of the store functions; recent and context are
\* the turns given to reformulateQuery and the text it makes of them for its
\* request, kept for a direct caller.  The other fields after
\* them belong to a caller of the exported functions: op and outcome are the
\* function it called last and how the call ended, ret and deleted the list or
\* the number the call returned, prev the function, outcome and number of the
\* call before, cleared whether a clear of the caller has succeeded, and sent
\* the chunks it has stored since
Idle ==
    [pc |-> "idle", input |-> <<>>, query |-> <<>>, mems |-> <<>>,
     ctxs |-> <<>>, chunks |-> <<>>, embedded |-> 0, ids |-> <<>>,
     summarized |-> <<>>,
     limit |-> 0, count |-> 0, recent |-> <<>>, context |-> <<>>,
     op |-> "none", outcome |-> "none", ret |-> <<>>, deleted |-> 0,
     prev |-> <<"none", "none", 0>>, cleared |-> FALSE, sent |-> <<>>]

Init ==
    /\ conversationCache = <<>>
    /\ currentSummary = <<>>
    /\ client = FALSE
    /\ collection = FALSE
    /\ store = <<>>
    /\ hs = [h \in Handlers |-> Idle]
    /\ console = <<>>
    /\ now = 0

Active == {h \in Handlers : hs[h].pc # "idle"}

\* readline hands the next line to a pending question, not to the 'line' event
Asking == \E g \in Handlers : hs[g].pc = "question"

\* what rl.prompt() writes: the prompt of the interface, which rl.question
\* replaces by its query, the empty string, until the answer arrives
Prompt == IF Asking THEN <<>> ELSE <<PROMPT>>

\* a handler awaits a promise that is settled already: its continuation runs
\* before any result of an external call is delivered; only lines read in
\* the same turn of the event loop are handled before it, and the end of the
\* input can come before it
Yielded == \E g \in Handlers : hs[g].pc \in {"prompt", "clear_ready", "mem_ready"}

\* handler h waits for the external call of position pc, and its result can
\* be delivered
Waiting(h, pc) == hs[h].pc = pc /\ ~Yielded

\* what the clock can read in n readings made one after the other in one
\* step, from the value it has to the value stop at which the model stops it
ClockReads(n, stop) ==
    {ts \in [1..n -> now..stop] : \A i \in 1..(n - 1) : ts[i] <= ts[i + 1]}

\* the clock after the readings ts
LastRead(ts) == IF ts = <<>> THEN now ELSE ts[Len(ts)]

UserTurn(content) == [role |-> "user", content |-> content]

\* mutant: the reply is stored as a turn of the user
AssistantTurnAsUser(content) == [role |-> "user", content |-> content]

AssistantTurn(content) == [role |-> "assistant", content |-> content]

\* the synthetic turn a rotation installs
SeedTurn(summary) == UserTurn(SEED_PREFIX \o summary)

\* mutant: the new summary replaces the rolling summary
MergeSummaryReplaces(cur, newSummary) == newSummary

\* mutant: the summaries are put together without the separator
MergeSummaryNoSeparator(cur, newSummary) == cur \o newSummary

\* the rolling summary after a rotation produced newSummary
MergeSummary(cur, newSummary) ==
    IF cur # <<>> THEN cur \o SEPARATOR \o newSummary ELSE newSummary

\* mutant: every exchange is followed by a summarization
NeedsRotationAlways(cache) == TRUE

\* the size check after an exchange was appended
NeedsRotation(cache) == Len(cache) >= CACHE_LIMIT

\* the Embedding Service is deterministic; the vector of a text is stood for
\* by one number, the length of the text
Embed(text) == Len(text)

\* the backend's distance between two embeddings
Distance(a, b) == IF a >= b THEN a - b ELSE b - a

\* the place of record i in the backend's ranking for queryEmbedding: ascending
\* distance, equal distances in the order of the collection
Rank(records, queryEmbedding, i) ==
    1 + Cardinality({j \in DOMAIN records :
          \/ Distance(queryEmbedding, records[j].embedding)
                < Distance(queryEmbedding, records[i].embedding)
          \/ /\ Distance(queryEmbedding, records[j].embedding)
                  = Distance(queryEmbedding, records[i].embedding)
             /\ j < i})

Ranked(records, queryEmbedding) ==
    [k \in DOMAIN records |->
        records[CHOOSE i \in DOMAIN records : Rank(records, queryEmbedding, i) = k]]

\* the backend's answer to query(queryEmbeddings, nResults): the nResults
\* nearest records, closest first
Nearest(records, queryEmbedding, nResults) ==
    Take(Ranked(records, queryEmbedding), nResults)

\* results.documents[0].map(...) of searchMemories
FormatResults(records, queryEmbedding) ==
    [i \in DOMAIN records |->
        [narrative |-> records[i].document, metadata |-> records[i].metadata,
         distance |-> Distance(queryEmbedding, records[i].embedding)]]

\* mutant: the results are returned whatever the limit
SearchResultsUnlimited(records, query, limit) ==
    FormatResults(Ranked(records, Embed(query)), Embed(query))

\* what searchMemories(query, limit) returns when its calls succeed
SearchResults(records, query, limit) ==
    FormatResults(Nearest(records, Embed(query), limit), Embed(query))

(***************************************************************************)
(* handleChat                                                              *)
(***************************************************************************)
\* the handler returns to processInput; the step that uses it writes the
\* prompt after what it printed, where processInput or the callback prompts
Finish(h) == hs' = [hs EXCEPT ![h] = Idle]

\* handleChat from the end of searchMemories to the pending reply call
AfterSearch(h, found) ==
    hs' = [hs EXCEPT ![h].pc = "generate", ![h].query = <<>>, ![h].mems = found]

\* mutant: searchMemories rethrows, which ends the chat turn
SearchFailedRethrows(h) == hs' = [hs EXCEPT ![h] = Idle]

\* the catch block of searchMemories
SearchFailed(h) == AfterSearch(h, <<>>)

\* mutant: initializeChroma looks at the collection handle
UninitializedHandle == ~collection

\* the test of initializeChroma: no client has been constructed yet
Uninitialized == ~client

\* handleChat from the end of reformulateQuery to the first pending call of
\* searchMemories
StartSearch(h, searchQuery) ==
    IF Uninitialized
    THEN /\ client' = TRUE
         /\ hs' = [hs EXCEPT ![h].pc = "search_init", ![h].query = searchQuery]
    ELSE /\ client' = client
         /\ hs' = [hs EXCEPT ![h].pc = "search_embed", ![h].query = searchQuery]

\* handleChat(input) up to the pending call of reformulateQuery
HandleChat(h, input) ==
    /\ Len(currentSummary) <= MaxSummaryLen
    /\ Len(conversationCache) <= MaxCacheLen
    /\ hs' = [hs EXCEPT ![h] = [Idle EXCEPT !.pc = "reformulate", !.input = input]]
    /\ console' = <<>>
    /\ UNCHANGED <<conversationCache, currentSummary, client, collection, store, now>>

\* mutant: the fallback returns an empty query
ReformulateFallbackEmpty(input) == <<>>

\* the catch block of reformulateQuery
ReformulateFallback(input) == input

ReformulateOk(h, content) ==
    /\ Waiting(h, "reformulate")
    /\ StartSearch(h, Trim(content))
    /\ console' = <<>>
    /\ UNCHANGED <<conversationCache, currentSummary, collection, store, now>>

ReformulateFail(h) ==
    /\ Waiting(h, "reformulate")
    /\ StartSearch(h, ReformulateFallback(hs[h].input))
    /\ console' = <<"[Query Reformulation] Error:">>
    /\ UNCHANGED <<conversationCache, currentSummary, collection, store, now>>

\* getOrCreateCollection returned to the initializeChroma called by searchMemories
SearchInitOk(h) ==
    /\ Waiting(h, "search_init")
    /\ collection' = TRUE
    /\ hs' = [hs EXCEPT ![h].pc = "search_embed"]
    /\ console' = <<>>
    /\ UNCHANGED <<conversationCache, currentSummary, client, store, now>>

SearchInitFail(h) ==
    /\ Waiting(h, "search_init")
    /\ SearchFailed(h)
    /\ console' = <<"[VectorDB] Error initializing Chroma:",
                    "[VectorDB] Error searching memories:">>
    /\ UNCHANGED <<conversationCache, currentSummary, client, collection, store, now>>

\* the embedding of the query returned; collection.query on a null handle throws
SearchEmbedOk(h) ==
    /\ Waiting(h, "search_embed")
    /\ IF collection
       THEN /\ hs' = [hs EXCEPT ![h].pc = "search_query"]
            /\ console' = <<>>
       ELSE /\ SearchFailed(h)
            /\ console' = <<"[VectorDB] Error searching memories:">>
    /\ UNCHANGED <<conversationCache, currentSummary, client, collection, store, now>>

SearchEmbedFail(h) ==
    /\ Waiting(h, "search_embed")
    /\ SearchFailed(h)
    /\ console' = <<"[VectorDB] Error generating embedding:",
                    "[VectorDB] Error searching memories:">>
    /\ UNCHANGED <<conversationCache, currentSummary, client, collection, store, now>>

SearchQueryOk(h) ==
    /\ Waiting(h, "search_query")
    /\ AfterSearch(h, SearchResults(store, hs[h].query, SEARCH_LIMIT))
    /\ console' = <<>>
    /\ UNCHANGED <<conversationCache, currentSummary, client, collection, store, now>>

SearchQueryFail(h) ==
    /\ Waiting(h, "search_query")
    /\ SearchFailed(h)
    /\ console' = <<"[VectorDB] Error searching memories:">>
    /\ UNCHANGED <<conversationCache, currentSummary, client, collection, store, now>>

\* the reply arrived: append the exchange, then the size check
GenerateOk(h, reply) ==
    /\ Waiting(h, "generate")
    /\ conversationCache' =
           conversationCache \o <<UserTurn(hs[h].input), AssistantTurn(reply)>>
    /\ IF NeedsRotation(conversationCache')
       THEN /\ hs' = [hs EXCEPT ![h].pc = "summarize", ![h].mems = <<>>,
                                ![h].summarized = conversationCache']
            /\ console' = <<"[Cache limit reached, summarizing conversation...]">>
       ELSE /\ Finish(h)
            /\ console' = Prompt
    /\ UNCHANGED <<currentSummary, client, collection, store, now>>

\* mutant: the catch block resets the buffer
ChatFailedResets(h) ==
    /\ hs' = [hs EXCEPT ![h] = Idle]
    /\ conversationCache' = <<>>
    /\ UNCHANGED currentSummary

\* mutant: the catch block leaves the user turn of the failed exchange in the
\* buffer
ChatFailedKeepsUserTurn(h) ==
    /\ hs' = [hs EXCEPT ![h] = Idle]
    /\ conversationCache' = conversationCache \o <<UserTurn(hs[h].input)>>
    /\ UNCHANGED currentSummary

\* the catch block of handleChat
ChatFailed(h) ==
    /\ Finish(h)
    /\ UNCHANGED <<conversationCache, currentSummary>>

\* the status an error of an external call carries; 0 stands for an error
\* without one
ErrorStatuses == {0, 401, 429}

\* what the catch block of handleChat prints after 'Error in chat:'
StatusLines(status) ==
    IF status = 401
    THEN <<"Authentication failed. Please check your OPENAI_API_KEY in .env file">>
    ELSE IF status = 429
    THEN <<"Rate limit exceeded. Please try again later.">>
    ELSE <<>>

GenerateFail(h, status) ==
    /\ Waiting(h, "generate")
    /\ ChatFailed(h)
    /\ console' = <<"Error in chat:">> \o StatusLines(status) \o Prompt
    /\ UNCHANGED <<client, collection, store, now>>

\* mutant: the buffer is reseeded with the new summary alone
RotateSeedsNewSummary(newSummary) ==
    /\ currentSummary' = MergeSummary(currentSummary, newSummary)
    /\ conversationCache' = <<SeedTurn(newSummary)>>

\* the rotation: merge the new summary and reseed the buffer
Rotate(newSummary) ==
    /\ currentSummary' = MergeSummary(currentSummary, newSummary)
    /\ conversationCache' = <<SeedTurn(currentSummary')>>

SummarizeOk(h, newSummary) ==
    /\ Waiting(h, "summarize")
    /\ Rotate(newSummary)
    /\ Finish(h)
    /\ console' = <<"[Conversation summarized and cache reset]">> \o Prompt
    /\ UNCHANGED <<client, collection, store, now>>

SummarizeFail(h, status) ==
    /\ Waiting(h, "summarize")
    /\ ChatFailed(h)
    /\ console' = <<"[MemoryProcessor] Error summarizing conversation:",
                    "Error in chat:">> \o StatusLines(status) \o Prompt
    /\ UNCHANGED <<client, collection, store, now>>

(***************************************************************************)
(* processSummaries, with the storeMemories it calls                       *)
(***************************************************************************)
\* mutant: the catch block clears the summary and the buffer
ProcessFailedClears(h) ==
    /\ hs' = [hs EXCEPT ![h] = Idle]
    /\ currentSummary' = <<>>
    /\ conversationCache' = <<>>

\* the catch block of processSummaries
ProcessFailed(h) ==
    /\ Finish(h)
    /\ UNCHANGED <<conversationCache, currentSummary>>

\* processConversations(contexts) up to its pending extraction call
StartExtraction(h, contexts) ==
    hs' = [hs EXCEPT ![h].pc = "extract", ![h].ctxs = contexts]

\* processSummaries() up to its first pending call
ProcessSummaries(h) ==
    /\ Len(store) < MaxStore
    /\ LET contexts == IF currentSummary # <<>> THEN <<currentSummary>> ELSE <<>>
       IN  IF currentSummary = <<>> /\ Len(conversationCache) = 0
           THEN /\ hs' = [hs EXCEPT ![h] = [Idle EXCEPT !.pc = "prompt"]]
                /\ console' = <<"No conversation to process">>
           ELSE IF Len(conversationCache) > 1
           THEN /\ hs' = [hs EXCEPT ![h] = [Idle EXCEPT !.pc = "residual",
                                                        !.ctxs = contexts,
                                                        !.summarized = conversationCache]]
                /\ console' = <<>>
           ELSE IF Len(contexts) = 0
           THEN /\ hs' = [hs EXCEPT ![h] = [Idle EXCEPT !.pc = "prompt"]]
                /\ console' = <<"No content to process">>
           ELSE /\ StartExtraction(h, contexts)
                /\ console' = <<>>
    /\ UNCHANGED <<conversationCache, currentSummary, client, collection, store, now>>

\* processSummaries returned before any call was pending: processInput
\* resumes after its await and prompts
PromptAfterProcess(h) ==
    /\ hs[h].pc = "prompt"
    /\ Finish(h)
    /\ console' = Prompt
    /\ UNCHANGED <<conversationCache, currentSummary, client, collection, store, now>>

ResidualOk(h, residualSummary) ==
    /\ Waiting(h, "residual")
    /\ StartExtraction(h, Append(hs[h].ctxs, residualSummary))
    /\ console' = <<>>
    /\ UNCHANGED <<conversationCache, currentSummary, client, collection, store, now>>

ResidualFail(h) ==
    /\ Waiting(h, "residual")
    /\ ProcessFailed(h)
    /\ console' = <<"[MemoryProcessor] Error summarizing conversation:",
                    "Error processing summaries:">> \o Prompt
    /\ UNCHANGED <<client, collection, store, now>>

\* storeMemories(chunks) up to its first pending call, chunks not empty; in a
\* session there is something to process only after a chat, whose search has
\* constructed the client, so that the first branch is never taken
StartStore(h, chunks) ==
    IF Uninitialized
    THEN /\ client' = TRUE
         /\ hs' = [hs EXCEPT ![h].pc = "store_init", ![h].chunks = chunks]
    ELSE /\ client' = client
         /\ hs' = [hs EXCEPT ![h].pc = "store_embed", ![h].chunks = chunks,
                             ![h].embedded = 0]

\* mutant: the summary and the buffer are cleared whatever was extracted
NoChunksClears(h) ==
    /\ hs' = [hs EXCEPT ![h] = Idle]
    /\ currentSummary' = <<>>
    /\ conversationCache' = <<>>

\* the else branch of chunks.length > 0: nothing is stored, nothing is cleared
NoChunks(h) ==
    /\ Finish(h)
    /\ UNCHANGED <<conversationCache, currentSummary>>

ExtractOk(h, content) ==
    /\ Waiting(h, "extract")
    /\ \E ts \in ClockReads(Len(ParsedOutputs[content]), MaxSessionClock) :
          LET chunks == BuildChunks(content, ts)
          IN  /\ now' = LastRead(ts)
              /\ IF Len(chunks) > 0
                 THEN /\ StartStore(h, chunks)
                      /\ console' = <<>>
                      /\ UNCHANGED <<conversationCache, currentSummary>>
                 ELSE /\ NoChunks(h)
                      /\ client' = client
                      /\ console' = <<"No chunks created">> \o Prompt
    /\ UNCHANGED <<collection, store>>

ExtractFail(h) ==
    /\ Waiting(h, "extract")
    /\ ProcessFailed(h)
    /\ console' = <<"[MemoryProcessor] Error processing conversations:",
                    "Error processing summaries:">> \o Prompt
    /\ UNCHANGED <<client, collection, store, now>>

\* chunk_${Date.now()}_${idx}: the clock is read once for each id, and ts
\* holds the readings in order
ChunkIds(chunks, ts) == [i \in DOMAIN chunks |-> <<"chunk", ts[i], i - 1>>]

\* one embedding of the batch returned; after the last one the ids are made
\* and collection.add is called, which throws on a null handle
StoreEmbedOk(h) ==
    /\ Waiting(h, "store_embed")
    /\ IF hs[h].embedded + 1 < Len(hs[h].chunks)
       THEN /\ hs' = [hs EXCEPT ![h].embedded = @ + 1]
            /\ console' = <<>>
            /\ UNCHANGED <<conversationCache, currentSummary, now>>
       ELSE \E ts \in ClockReads(Len(hs[h].chunks), MaxSessionClock) :
              /\ now' = LastRead(ts)
              /\ IF collection
                 THEN /\ hs' = [hs EXCEPT ![h].pc = "store_add",
                                          ![h].embedded = @ + 1,
                                          ![h].ids = ChunkIds(hs[h].chunks, ts)]
                      /\ console' = <<>>
                      /\ UNCHANGED <<conversationCache, currentSummary>>
                 ELSE /\ ProcessFailed(h)
                      /\ console' = <<"[VectorDB] Error storing memories:",
                                      "Error processing summaries:">> \o Prompt
    /\ UNCHANGED <<client, collection, store>>

StoreEmbedFail(h) ==
    /\ Waiting(h, "store_embed")
    /\ ProcessFailed(h)
    /\ console' = <<"[VectorDB] Error generating embedding:",
                    "[VectorDB] Error storing memories:",
                    "Error processing summaries:">> \o Prompt
    /\ UNCHANGED <<client, collection, store, now>>

\* the records collection.add writes
NewRecords(ids, chunks) ==
    [i \in DOMAIN chunks |->
        [id |-> ids[i], embedding |-> Embed(chunks[i].narrative),
         document |-> chunks[i].narrative, metadata |-> chunks[i].metadata]]

\* mutant: the reset empties the buffer and keeps the summary
ClearAfterProcessKeepsSummary ==
    /\ currentSummary' = currentSummary
    /\ conversationCache' = <<>>

\* the reset after a successful store
ClearAfterProcess ==
    /\ currentSummary' = <<>>
    /\ conversationCache' = <<>>

StoreAddOk(h) ==
    /\ Waiting(h, "store_add")
    /\ store' = store \o NewRecords(hs[h].ids, hs[h].chunks)
    /\ ClearAfterProcess
    /\ Finish(h)
    /\ console' = <<"Summary and cache cleared.">> \o Prompt
    /\ UNCHANGED <<client, collection, now>>

StoreAddFail(h) ==
    /\ Waiting(h, "store_add")
    /\ ProcessFailed(h)
    /\ console' = <<"[VectorDB] Error storing memories:",
                    "Error processing summaries:">> \o Prompt
    /\ UNCHANGED <<client, collection, store, now>>

(***************************************************************************)
(* The display commands and the dispatch of a line                         *)
(***************************************************************************)
\* what showCache prints: a header, one line per turn, the total
CacheListing(cache) ==
    <<"=== Conversation Cache ===">>
    \o (IF Len(cache) = 0 THEN <<"Cache is empty">>
        ELSE [i \in 1..Len(cache) |-> "N. [role] content"])
    \o <<"Total: N messages">>

ShowCache(h) ==
    /\ console' = CacheListing(conversationCache) \o Prompt
    /\ Finish(h)
    /\ UNCHANGED <<conversationCache, currentSummary, client, collection, store, now>>

ShowSummaries(h) ==
    /\ console' = IF currentSummary = <<>>
                  THEN <<"=== Current Summary ===", "No summary yet">> \o Prompt
                  ELSE <<"=== Current Summary ===">> \o Prompt
    /\ Finish(h)
    /\ UNCHANGED <<conversationCache, currentSummary, client, collection, store, now>>

\* showHelp() and the prompt after it
ShowHelp(h) ==
    /\ console' = <<"=== Available Commands ===">> \o Prompt
    /\ Finish(h)
    /\ UNCHANGED <<conversationCache, currentSummary, client, collection, store, now>>

\* process.exit(0): no handler runs any more and no line is read
Exited == [h \in Handlers |-> [Idle EXCEPT !.pc = "exited"]]

\* the exit and quit commands: rl.close() runs the 'close' listener, which
\* prints its own goodbye before the process exits
Exit ==
    /\ console' = <<"Goodbye!", "Goodbye!">>
    /\ hs' = Exited
    /\ UNCHANGED <<conversationCache, currentSummary, client, collection, store, now>>

\* the 'close' listener of main, when the input ends: the process exits with
\* whatever calls and continuations are pending
Close ==
    /\ hs # Exited
    /\ console' = <<"Goodbye!">>
    /\ hs' = Exited
    /\ UNCHANGED <<conversationCache, currentSummary, client, collection, store, now>>

\* what showMemories prints after getAllMemories returned, with the prompt
\* that follows it; printed is what getAllMemories printed before
MemoriesShown(h, printed, memories) ==
    /\ console' = printed
                   \o (IF Len(memories) = 0
                       THEN <<"No memories stored yet">>
                       ELSE [i \in DOMAIN memories |-> "Memory N:"])
                   \o <<"Total: N memories">> \o Prompt
    /\ Finish(h)

\* the memories command: showMemories() up to the first await of
\* getAllMemories, which is that of initializeChroma()
ShowMemories(h) ==
    /\ console' = <<"=== Stored Memories ===">>
    /\ IF Uninitialized
       THEN /\ client' = TRUE
            /\ hs' = [hs EXCEPT ![h] = [Idle EXCEPT !.pc = "mem_init"]]
       ELSE /\ client' = client
            /\ hs' = [hs EXCEPT ![h] = [Idle EXCEPT !.pc = "mem_ready"]]
    /\ UNCHANGED <<conversationCache, currentSummary, collection, store, now>>

\* initializeChroma() had nothing to wait for: collection.count() is called
\* on the handle of this moment and throws on a null one, which the catch
\* block of getAllMemories turns into an empty list
MemoriesReady(h) ==
    /\ hs[h].pc = "mem_ready"
    /\ IF collection
       THEN /\ hs' = [hs EXCEPT ![h].pc = "mem_count"]
            /\ console' = <<>>
       ELSE MemoriesShown(h, <<"[VectorDB] Error getting all memories:">>, <<>>)
    /\ UNCHANGED <<conversationCache, currentSummary, client, collection, store, now>>

\* getOrCreateCollection returned or threw
MemoriesInit(h) ==
    /\ Waiting(h, "mem_init")
    /\ \/ /\ collection' = TRUE
          /\ hs' = [hs EXCEPT ![h].pc = "mem_count"]
          /\ console' = <<>>
       \/ /\ collection' = collection
          /\ MemoriesShown(h, <<"[VectorDB] Error initializing Chroma:",
                                "[VectorDB] Error getting all memories:">>, <<>>)
    /\ UNCHANGED <<conversationCache, currentSummary, client, store, now>>

\* collection.count() returned or threw
MemoriesCount(h) ==
    /\ Waiting(h, "mem_count")
    /\ \/ LET count == Len(store)
          IN  IF count = 0
              THEN MemoriesShown(h, <<>>, <<>>)
              ELSE /\ hs' = [hs EXCEPT ![h].pc = "mem_get", ![h].count = count]
                   /\ console' = <<>>
       \/ MemoriesShown(h, <<"[VectorDB] Error getting all memories:">>, <<>>)
    /\ UNCHANGED <<conversationCache, currentSummary, client, collection, store, now>>

\* collection.get({limit: count}) returned or threw
MemoriesGet(h) ==
    /\ Waiting(h, "mem_get")
    /\ \/ MemoriesShown(h, <<>>, Take(store, hs[h].count))
       \/ MemoriesShown(h, <<"[VectorDB] Error getting all memories:">>, <<>>)
    /\ UNCHANGED <<conversationCache, currentSummary, client, collection, store, now>>

\* the clear command: processInput asks with rl.question and returns; the
\* callback of the question stays pending in the slot until the next line
AskClear(h) ==
    /\ hs' = [hs EXCEPT ![h] = [Idle EXCEPT !.pc = "question"]]
    /\ console' = <<>>
    /\ UNCHANGED <<conversationCache, currentSummary, client, collection, store, now>>

\* processInput(line), run by the first free handler slot
ProcessInput(h, line) ==
    /\ hs[h].pc = "idle"
    /\ \A g \in Handlers : g < h => hs[g].pc # "idle"
    /\ ~Asking
    /\ LET trimmedInput == Trim(line)
           command == ToLowerCase(trimmedInput)
       IN  CASE trimmedInput = <<>> ->
                  /\ console' = Prompt
                  /\ UNCHANGED <<conversationCache, currentSummary, client,
                                 collection, store, hs, now>>
             [] command \in EXIT_CMDS -> Exit
             [] command = HELP_CMD -> ShowHelp(h)
             [] command = CACHE_CMD -> ShowCache(h)
             [] command = SUMMARIES_CMD -> ShowSummaries(h)
             [] command = MEMORIES_CMD -> ShowMemories(h)
             [] command = PROCESS_CMD -> ProcessSummaries(h)
             [] command = CLEAR_CMD -> AskClear(h)
             [] OTHER -> HandleChat(h, trimmedInput)

\* the input ends with a line that has no line feed: readline emits it as a
\* 'line' event, also while a question is pending, whose callback is then
\* never called, and closes; processInput(line) runs up to its first await
\* and the 'close' listener ends the process
LastLine(line) ==
    /\ hs # Exited
    /\ LET trimmedInput == Trim(line)
           command == ToLowerCase(trimmedInput)
           printed ==
               CASE trimmedInput = <<>> -> Prompt
                 [] command \in EXIT_CMDS -> <<"Goodbye!">>
                 [] command = HELP_CMD -> <<"=== Available Commands ===">> \o Prompt
                 [] command = CACHE_CMD -> CacheListing(conversationCache) \o Prompt
                 [] command = SUMMARIES_CMD ->
                      (IF currentSummary = <<>>
                       THEN <<"=== Current Summary ===", "No summary yet">>
                       ELSE <<"=== Current Summary ===">>) \o Prompt
                 [] command = MEMORIES_CMD -> <<"=== Stored Memories ===">>
                 [] command = PROCESS_CMD ->
                      IF currentSummary = <<>> /\ Len(conversationCache) = 0
                      THEN <<"No conversation to process">>
                      ELSE IF Len(conversationCache) > 1
                      THEN <<>>
                      ELSE IF currentSummary = <<>>
                      THEN <<"No content to process">>
                      ELSE <<>>
                 [] OTHER -> <<>>
       IN  /\ console' = printed \o <<"Goodbye!">>
           /\ client' = (client \/ command = MEMORIES_CMD)
    /\ hs' = Exited
    /\ UNCHANGED <<conversationCache, currentSummary, collection, store, now>>

(***************************************************************************)
(* The callback of the clear command's question, with the clearAllMemories *)
(* it calls                                                                *)
(***************************************************************************)
\* the lines typed in a session that also clears the store
CommandLines ==
    Lines \cup { CLEAR_CMD, <<" ", "C", "o", "n", "f", "i", "r", "m">>, <<" ">>,
                 HELP_CMD, MEMORIES_CMD, <<"e", "x", "i", "t">>,
                 <<"Q", "u", "i", "t", "\n">> }

\* mutant: an unconfirmed clear empties the store
CancelledClears(h) ==
    /\ Finish(h)
    /\ store' = <<>>

\* the else branch of the callback: nothing is deleted
Cancelled(h) ==
    /\ Finish(h)
    /\ store' = store

\* clearAllMemories threw inside the callback, which has no catch: the
\* rejection reaches the unhandledRejection handler, nothing is reported and
\* the rl.prompt() after the report is not reached
ClearThrew(h) ==
    /\ Finish(h)
    /\ console' = <<"[VectorDB] Error clearing memories:", "Unhandled error:">>

\* clearAllMemories returned to the callback, which reports and prompts;
\* printed is what clearAllMemories printed before it returned
ClearReported(h, printed) ==
    /\ Finish(h)
    /\ console' = printed \o <<"Database cleared. N memories deleted.">> \o Prompt

\* the test of the callback on the line typed as the answer
Confirmed(confirmation) == ToLowerCase(Trim(confirmation)) = CONFIRM_WORD

\* the callback of rl.question, up to the first await of clearAllMemories,
\* which is that of initializeChroma(); the answer stays in the callback's
\* parameter; readline has put back the prompt of the interface before it
\* calls the callback
Answer(h, confirmation) ==
    /\ hs[h].pc = "question"
    /\ IF Confirmed(confirmation)
       THEN IF Uninitialized
            THEN /\ client' = TRUE
                 /\ hs' = [hs EXCEPT ![h].pc = "clear_init",
                                     ![h].input = confirmation]
                 /\ console' = <<>>
                 /\ store' = store
            ELSE /\ client' = client
                 /\ hs' = [hs EXCEPT ![h].pc = "clear_ready",
                                     ![h].input = confirmation]
                 /\ console' = <<>>
                 /\ store' = store
       ELSE /\ client' = client
            /\ Cancelled(h)
            /\ console' = <<"Cancelled. No memories were deleted.", PROMPT>>
    /\ UNCHANGED <<conversationCache, currentSummary, collection, now>>

\* initializeChroma() had nothing to wait for: collection.count() is called
\* on the handle of this moment and throws on a null one
ClearReady(h) ==
    /\ hs[h].pc = "clear_ready"
    /\ IF collection
       THEN /\ hs' = [hs EXCEPT ![h].pc = "clear_count"]
            /\ console' = <<>>
       ELSE ClearThrew(h)
    /\ UNCHANGED <<conversationCache, currentSummary, client, collection, store, now>>

ClearInitOk(h) ==
    /\ Waiting(h, "clear_init")
    /\ collection' = TRUE
    /\ hs' = [hs EXCEPT ![h].pc = "clear_count"]
    /\ console' = <<>>
    /\ UNCHANGED <<conversationCache, currentSummary, client, store, now>>

ClearInitFail(h) ==
    /\ Waiting(h, "clear_init")
    /\ Finish(h)
    /\ console' = <<"[VectorDB] Error initializing Chroma:",
                    "[VectorDB] Error clearing memories:", "Unhandled error:">>
    /\ UNCHANGED <<conversationCache, currentSummary, client, collection, store, now>>

\* collection.count() returned
ClearCountOk(h) ==
    /\ Waiting(h, "clear_count")
    /\ LET count == Len(store)
       IN  IF count = 0
           THEN ClearReported(h, <<"[VectorDB] No memories to clear">>)
           ELSE /\ hs' = [hs EXCEPT ![h].pc = "clear_get", ![h].count = count]
                /\ console' = <<>>
    /\ UNCHANGED <<conversationCache, currentSummary, client, collection, store, now>>

ClearCountFail(h) ==
    /\ Waiting(h, "clear_count")
    /\ ClearThrew(h)
    /\ UNCHANGED <<conversationCache, currentSummary, client, collection, store, now>>

\* collection.get() returned the ids
ClearGetOk(h) ==
    /\ Waiting(h, "clear_get")
    /\ LET ids == [i \in DOMAIN store |-> store[i].id]
       IN  IF Len(ids) > 0
           THEN /\ hs' = [hs EXCEPT ![h].pc = "clear_delete", ![h].ids = ids]
                /\ console' = <<>>
           ELSE ClearReported(h, <<>>)
    /\ UNCHANGED <<conversationCache, currentSummary, client, collection, store, now>>

ClearGetFail(h) ==
    /\ Waiting(h, "clear_get")
    /\ ClearThrew(h)
    /\ UNCHANGED <<conversationCache, currentSummary, client, collection, store, now>>

\* collection.delete({ids}) returned
ClearDeleteOk(h) ==
    /\ Waiting(h, "clear_delete")
    /\ store' = SelectSeq(store, LAMBDA record :
                     \A i \in DOMAIN hs[h].ids : hs[h].ids[i] # record.id)
    /\ ClearReported(h, <<"[VectorDB] Cleared N memories from database">>)
    /\ UNCHANGED <<conversationCache, currentSummary, client, collection, now>>

ClearDeleteFail(h) ==
    /\ Waiting(h, "clear_delete")
    /\ ClearThrew(h)
    /\ UNCHANGED <<conversationCache, currentSummary, client, collection, store, now>>

(***************************************************************************)
(* The exported functions called directly, as the test scripts call them.  *)
(* The callers share the process-wide client and collection handle; each   *)
(* caller makes one call at a time.                                        *)
(***************************************************************************)
ChunkA == MakeChunk(FactA, 0)

ChunkB == MakeChunk(FactB, 0)

\* the chunk lists passed to storeMemories
Batches == { <<>>, <<ChunkA>>, <<ChunkB, ChunkA>> }

\* the queries and limits passed to searchMemories
Queries == { <<"q">>, FactB }

Limits == { TEST_LIMIT, SEARCH_LIMIT }

\* the summary lists passed to processConversations
SummaryLists == { <<>>, << <<"s">> >> }

\* the first caller is a script that keeps account of its calls, as runTest
\* does of the chunks it stored; of the other caller only the calls matter
FirstCaller == CHOOSE h \in Handlers : \A g \in Handlers : h <= g

KeepsAccount(h) == h = FirstCaller

\* the record of a caller that starts a call of op
Calling(h, op) ==
    IF KeepsAccount(h)
    THEN [Idle EXCEPT !.op = op,
                      !.prev = <<hs[h].op, hs[h].outcome, hs[h].deleted>>,
                      !.cleared = hs[h].cleared, !.sent = hs[h].sent]
    ELSE [Idle EXCEPT !.op = op]

\* the call ends: it returned value or number, or it threw; the caller still
\* has the arguments it passed
Done(h, call, outcome, value, number, sent) ==
    LET result == [Idle EXCEPT !.op = call.op, !.ctxs = call.ctxs,
                               !.chunks = call.chunks, !.embedded = call.embedded,
                               !.outcome = outcome, !.ret = value,
                               !.deleted = number]
    IN  IF KeepsAccount(h)
        THEN hs' = [hs EXCEPT ![h] =
                       [result EXCEPT
                           !.prev = call.prev,
                           !.cleared = call.cleared \/ (call.op = "clearAllMemories"
                                                         /\ outcome = "returned"),
                           !.sent = sent]]
        ELSE hs' = [hs EXCEPT ![h] = result]

\* a conversation of six turns; the buffers given to reformulateQuery are its
\* beginnings
RecentContexts ==
    LET conversation ==
            <<UserTurn(<<"a">>), AssistantTurn(<<"b", " ", "b">>), UserTurn(<<"c">>),
              AssistantTurn(<<"d">>), UserTurn(<<"e">>), AssistantTurn(<<"f">>)>>
    IN  {SubSeq(conversation, 1, n) : n \in 0..Len(conversation)}

\* recentContext.slice(-4).map(msg => `${msg.role}: ${msg.content}`).join('\n')
ContextStr(recentContext) ==
    LET RoleText(role) ==
            IF role = "user" THEN <<"u", "s", "e", "r">>
            ELSE <<"a", "s", "s", "i", "s", "t", "a", "n", "t">>
        last == LastN(recentContext, CONTEXT_TURNS)
    IN  Join([i \in DOMAIN last |->
                 RoleText(last[i].role) \o <<":", " ">> \o last[i].content],
             <<"\n">>)

\* reformulateQuery(input, recentContext) up to its pending request; context
\* is `${contextStr || 'No recent context'}`, the context of the prompt
ReformulateQuery(h, input, recentContext) ==
    /\ hs[h].pc = "idle"
    /\ LET contextStr == ContextStr(recentContext)
           context == IF contextStr # <<>> THEN contextStr
                      ELSE <<"N", "o", " ", "r", "e", "c", "e", "n", "t", " ",
                             "c", "o", "n", "t", "e", "x", "t">>
       IN  hs' = [hs EXCEPT ![h] =
                     [Calling(h, "reformulateQuery") EXCEPT
                         !.pc = "rq_call", !.input = input,
                         !.recent = recentContext, !.context = context]]
    /\ console' = <<>>
    /\ UNCHANGED <<conversationCache, currentSummary, client, collection, store, now>>

ReformulateQueryOk(h, content) ==
    /\ hs[h].pc = "rq_call"
    /\ hs' = [hs EXCEPT ![h].pc = "idle", ![h].outcome = "returned",
                        ![h].query = Trim(content)]
    /\ console' = <<>>
    /\ UNCHANGED <<conversationCache, currentSummary, client, collection, store, now>>

ReformulateQueryFail(h) ==
    /\ hs[h].pc = "rq_call"
    /\ hs' = [hs EXCEPT ![h].pc = "idle", ![h].outcome = "returned",
                        ![h].query = ReformulateFallback(hs[h].input)]
    /\ console' = <<"[Query Reformulation] Error:">>
    /\ UNCHANGED <<conversationCache, currentSummary, client, collection, store, now>>

\* the clock advances
Tick ==
    /\ now < MaxClock
    /\ now' = now + 1
    /\ UNCHANGED <<conversationCache, currentSummary, client, collection, store,
                   hs, console>>

\* mutant: an empty list is sent to the Generation Service like any other
NoSummariesIgnored(summaries) == FALSE

\* !summaries || summaries.length === 0
NoSummaries(summaries) == Len(summaries) = 0

\* processConversations(summaries) up to its pending extraction call
ProcessConversations(h, summaries) ==
    /\ hs[h].pc = "idle"
    /\ LET call == [Calling(h, "processConversations") EXCEPT !.ctxs = summaries]
       IN  IF NoSummaries(summaries)
           THEN Done(h, call, "returned", <<>>, 0, call.sent)
           ELSE hs' = [hs EXCEPT ![h] = [call EXCEPT !.pc = "pc_extract"]]
    /\ console' = <<>>
    /\ UNCHANGED <<conversationCache, currentSummary, client, collection, store, now>>

ProcessConversationsOk(h, content) ==
    /\ hs[h].pc = "pc_extract"
    /\ \E ts \in ClockReads(Len(ParsedOutputs[content]), MaxClock) :
          /\ now' = LastRead(ts)
          /\ Done(h, hs[h], "returned", BuildChunks(content, ts), 0, hs[h].sent)
    /\ console' = <<>>
    /\ UNCHANGED <<conversationCache, currentSummary, client, collection, store>>

\* mutant: the catch block returns an empty list
ExtractionFailedReturnsEmpty(h) == Done(h, hs[h], "returned", <<>>, 0, hs[h].sent)

\* the catch block of processConversations: the error is thrown again
ExtractionFailed(h) == Done(h, hs[h], "threw", <<>>, 0, hs[h].sent)

ProcessConversationsFail(h) ==
    /\ hs[h].pc = "pc_extract"
    /\ ExtractionFailed(h)
    /\ console' = <<"[MemoryProcessor] Error processing conversations:">>
    /\ UNCHANGED <<conversationCache, currentSummary, client, collection, store, now>>

\* the catch block of searchMemories, for a direct caller: it returns []
SearchCaught(h) == Done(h, hs[h], "returned", <<>>, 0, hs[h].sent)

\* searchMemories(query, limit) up to its first pending call
SearchMemories(h, query, limit) ==
    /\ hs[h].pc = "idle"
    /\ LET call == [Calling(h, "searchMemories") EXCEPT !.query = query,
                                                         !.limit = limit]
       IN  IF Uninitialized
           THEN /\ client' = TRUE
                /\ hs' = [hs EXCEPT ![h] = [call EXCEPT !.pc = "sm_init"]]
           ELSE /\ client' = client
                /\ hs' = [hs EXCEPT ![h] = [call EXCEPT !.pc = "sm_embed"]]
    /\ console' = <<>>
    /\ UNCHANGED <<conversationCache, currentSummary, collection, store, now>>

SearchMemoriesInitOk(h) ==
    /\ hs[h].pc = "sm_init"
    /\ collection' = TRUE
    /\ hs' = [hs EXCEPT ![h].pc = "sm_embed"]
    /\ console' = <<>>
    /\ UNCHANGED <<conversationCache, currentSummary, client, store, now>>

SearchMemoriesInitFail(h) ==
    /\ hs[h].pc = "sm_init"
    /\ SearchCaught(h)
    /\ console' = <<"[VectorDB] Error initializing Chroma:",
                    "[VectorDB] Error searching memories:">>
    /\ UNCHANGED <<conversationCache, currentSummary, client, collection, store, now>>

\* the embedding of the query returned; collection.query on a null handle throws
SearchMemoriesEmbedOk(h) ==
    /\ hs[h].pc = "sm_embed"
    /\ IF collection
       THEN /\ hs' = [hs EXCEPT ![h].pc = "sm_query"]
            /\ console' = <<>>
       ELSE /\ SearchCaught(h)
            /\ console' = <<"[VectorDB] Error searching memories:">>
    /\ UNCHANGED <<conversationCache, currentSummary, client, collection, store, now>>

SearchMemoriesEmbedFail(h) ==
    /\ hs[h].pc = "sm_embed"
    /\ SearchCaught(h)
    /\ console' = <<"[VectorDB] Error generating embedding:",
                    "[VectorDB] Error searching memories:">>
    /\ UNCHANGED <<conversationCache, currentSummary, client, collection, store, now>>

SearchMemoriesQueryOk(h) ==
    /\ hs[h].pc = "sm_query"
    /\ Done(h, hs[h], "returned", SearchResults(store, hs[h].query, hs[h].limit),
            0, hs[h].sent)
    /\ console' = <<>>
    /\ UNCHANGED <<conversationCache, currentSummary, client, collection, store, now>>

SearchMemoriesQueryFail(h) ==
    /\ hs[h].pc = "sm_query"
    /\ SearchCaught(h)
    /\ console' = <<"[VectorDB] Error searching memories:">>
    /\ UNCHANGED <<conversationCache, currentSummary, client, collection, store, now>>

\* mutant: the catch block of storeMemories swallows the error
StoreFailedSilently(h) == Done(h, hs[h], "returned", <<>>, 0, hs[h].sent)

\* the catch block of storeMemories: the error is thrown again
StoreFailed(h) == Done(h, hs[h], "threw", <<>>, 0, hs[h].sent)

\* storeMemories after initializeChroma returned: an empty list ends the call,
\* otherwise the first embedding is requested
StoreBegin(h, call) ==
    IF Len(call.chunks) = 0
    THEN Done(h, call, "returned", <<>>, 0, call.sent)
    ELSE hs' = [hs EXCEPT ![h] = [call EXCEPT !.pc = "st_embed", !.embedded = 0]]

\* storeMemories(chunks) up to its first pending call
StoreMemories(h, chunks) ==
    /\ hs[h].pc = "idle"
    /\ Len(store) + Len(chunks) <= MaxRecords
    /\ Len(hs[h].sent) + Len(chunks) <= MaxRecords
    /\ LET call == [Calling(h, "storeMemories") EXCEPT !.chunks = chunks]
       IN  IF Uninitialized
           THEN /\ client' = TRUE
                /\ hs' = [hs EXCEPT ![h] = [call EXCEPT !.pc = "st_init"]]
           ELSE /\ client' = client
                /\ StoreBegin(h, call)
    /\ console' = <<>>
    /\ UNCHANGED <<conversationCache, currentSummary, collection, store, now>>

StoreMemoriesInitOk(h) ==
    /\ hs[h].pc = "st_init"
    /\ collection' = TRUE
    /\ StoreBegin(h, hs[h])
    /\ console' = <<>>
    /\ UNCHANGED <<conversationCache, currentSummary, client, store, now>>

StoreMemoriesInitFail(h) ==
    /\ hs[h].pc = "st_init"
    /\ StoreFailed(h)
    /\ console' = <<"[VectorDB] Error initializing Chroma:",
                    "[VectorDB] Error storing memories:">>
    /\ UNCHANGED <<conversationCache, currentSummary, client, collection, store, now>>

\* one embedding of the batch returned; after the last one the ids are made
\* and collection.add is called, which throws on a null handle
StoreMemoriesEmbedOk(h) ==
    /\ hs[h].pc = "st_embed"
    /\ IF hs[h].embedded + 1 < Len(hs[h].chunks)
       THEN /\ hs' = [hs EXCEPT ![h].embedded = @ + 1]
            /\ console' = <<>>
            /\ now' = now
       ELSE \E ts \in ClockReads(Len(hs[h].chunks), MaxClock) :
              /\ now' = LastRead(ts)
              /\ IF collection
                 THEN /\ hs' = [hs EXCEPT ![h].pc = "st_add", ![h].embedded = @ + 1,
                                          ![h].ids = ChunkIds(hs[h].chunks, ts)]
                      /\ console' = <<>>
                 ELSE /\ StoreFailed(h)
                      /\ console' = <<"[VectorDB] Error storing memories:">>
    /\ UNCHANGED <<conversationCache, currentSummary, client, collection, store>>

StoreMemoriesEmbedFail(h) ==
    /\ hs[h].pc = "st_embed"
    /\ StoreFailed(h)
    /\ console' = <<"[VectorDB] Error generating embedding:",
                    "[VectorDB] Error storing memories:">>
    /\ UNCHANGED <<conversationCache, currentSummary, client, collection, store, now>>

StoreMemoriesAddOk(h) ==
    /\ hs[h].pc = "st_add"
    /\ store' = store \o NewRecords(hs[h].ids, hs[h].chunks)
    /\ Done(h, hs[h], "returned", <<>>, 0, hs[h].sent \o hs[h].chunks)
    /\ console' = <<>>
    /\ UNCHANGED <<conversationCache, currentSummary, client, collection, now>>

StoreMemoriesAddFail(h) ==
    /\ hs[h].pc = "st_add"
    /\ StoreFailed(h)
    /\ console' = <<"[VectorDB] Error storing memories:">>
    /\ UNCHANGED <<conversationCache, currentSummary, client, collection, store, now>>

\* initializeChroma() called by itself, up to its pending call; with the
\* client constructed it only returns the module's handle, which is the
\* collection 'memories' or null
InitializeChroma(h) ==
    /\ hs[h].pc = "idle"
    /\ LET call == Calling(h, "initializeChroma")
       IN  IF Uninitialized
           THEN /\ client' = TRUE
                /\ hs' = [hs EXCEPT ![h] = [call EXCEPT !.pc = "ic_init"]]
           ELSE /\ client' = client
                /\ Done(h, call, "returned",
                        IF collection THEN <<"memories">> ELSE <<>>, 0, call.sent)
    /\ console' = <<>>
    /\ UNCHANGED <<conversationCache, currentSummary, collection, store, now>>

InitializeChromaOk(h) ==
    /\ hs[h].pc = "ic_init"
    /\ collection' = TRUE
    /\ Done(h, hs[h], "returned", <<"memories">>, 0, hs[h].sent)
    /\ console' = <<"[VectorDB] Chroma initialized successfully">>
    /\ UNCHANGED <<conversationCache, currentSummary, client, store, now>>

InitializeChromaFail(h) ==
    /\ hs[h].pc = "ic_init"
    /\ Done(h, hs[h], "threw", <<>>, 0, hs[h].sent)
    /\ console' = <<"[VectorDB] Error initializing Chroma:">>
    /\ UNCHANGED <<conversationCache, currentSummary, client, collection, store, now>>

\* the catch block of getAllMemories: it returns []
GetAllCaught(h, call) == Done(h, call, "returned", <<>>, 0, call.sent)

\* mutant: the listing gives the narratives without their metadata
ListingWithoutMetadata(records) ==
    [i \in DOMAIN records |->
        [id |-> records[i].id, narrative |-> records[i].document,
         metadata |-> [source |-> "unknown"]]]

\* results.documents.map(...) of getAllMemories
Listing(records) ==
    [i \in DOMAIN records |->
        [id |-> records[i].id, narrative |-> records[i].document,
         metadata |-> records[i].metadata]]

\* getAllMemories() up to its first pending call; collection.count on a null
\* handle throws
GetAllMemories(h) ==
    /\ hs[h].pc = "idle"
    /\ LET call == Calling(h, "getAllMemories")
       IN  IF Uninitialized
           THEN /\ client' = TRUE
                /\ hs' = [hs EXCEPT ![h] = [call EXCEPT !.pc = "ga_init"]]
                /\ console' = <<>>
           ELSE IF collection
           THEN /\ client' = client
                /\ hs' = [hs EXCEPT ![h] = [call EXCEPT !.pc = "ga_count"]]
                /\ console' = <<>>
           ELSE /\ client' = client
                /\ GetAllCaught(h, call)
                /\ console' = <<"[VectorDB] Error getting all memories:">>
    /\ UNCHANGED <<conversationCache, currentSummary, collection, store, now>>

GetAllMemoriesInitOk(h) ==
    /\ hs[h].pc = "ga_init"
    /\ collection' = TRUE
    /\ hs' = [hs EXCEPT ![h].pc = "ga_count"]
    /\ console' = <<>>
    /\ UNCHANGED <<conversationCache, currentSummary, client, store, now>>

GetAllMemoriesInitFail(h) ==
    /\ hs[h].pc = "ga_init"
    /\ GetAllCaught(h, hs[h])
    /\ console' = <<"[VectorDB] Error initializing Chroma:",
                    "[VectorDB] Error getting all memories:">>
    /\ UNCHANGED <<conversationCache, currentSummary, client, collection, store, now>>

\* collection.count() returned
GetAllMemoriesCountOk(h) ==
    /\ hs[h].pc = "ga_count"
    /\ LET count == Len(store)
       IN  IF count = 0
           THEN Done(h, hs[h], "returned", <<>>, 0, hs[h].sent)
           ELSE hs' = [hs EXCEPT ![h].pc = "ga_get", ![h].count = count]
    /\ console' = <<>>
    /\ UNCHANGED <<conversationCache, currentSummary, client, collection, store, now>>

GetAllMemoriesCountFail(h) ==
    /\ hs[h].pc = "ga_count"
    /\ GetAllCaught(h, hs[h])
    /\ console' = <<"[VectorDB] Error getting all memories:">>
    /\ UNCHANGED <<conversationCache, currentSummary, client, collection, store, now>>

\* collection.get({limit: count}) returned
GetAllMemoriesGetOk(h) ==
    /\ hs[h].pc = "ga_get"
    /\ LET records == Take(store, hs[h].count)
       IN  IF Len(records) > 0
           THEN Done(h, hs[h], "returned", Listing(records), 0, hs[h].sent)
           ELSE Done(h, hs[h], "returned", <<>>, 0, hs[h].sent)
    /\ console' = <<>>
    /\ UNCHANGED <<conversationCache, currentSummary, client, collection, store, now>>

GetAllMemoriesGetFail(h) ==
    /\ hs[h].pc = "ga_get"
    /\ GetAllCaught(h, hs[h])
    /\ console' = <<"[VectorDB] Error getting all memories:">>
    /\ UNCHANGED <<conversationCache, currentSummary, client, collection, store, now>>

\* the catch block of clearAllMemories: the error is thrown again
ClearFailedReturnsCount(h, call) ==
    Done(h, call, "returned", <<>>, call.count, call.sent)

ClearFailed(h, call) == Done(h, call, "threw", <<>>, 0, call.sent)

\* clearAllMemories returns the number it deleted; the caller has then nothing
\* stored that it knows of
ClearReturns(h, number) == Done(h, hs[h], "returned", <<>>, number, <<>>)

\* results.ids of collection.get()
IdsOf(records) == [i \in DOMAIN records |-> records[i].id]

\* mutant: delete leaves the first record
RemainingButFirst(records, ids) == Take(records, 1)

\* the collection after delete({ids})
Remaining(records, ids) ==
    LET Kept(record) == \A i \in DOMAIN ids : ids[i] # record.id
    IN  SelectSeq(records, Kept)

\* clearAllMemories() up to its first pending call; collection.count on a null
\* handle throws
ClearAllMemories(h) ==
    /\ hs[h].pc = "idle"
    /\ LET call == Calling(h, "clearAllMemories")
       IN  IF Uninitialized
           THEN /\ client' = TRUE
                /\ hs' = [hs EXCEPT ![h] = [call EXCEPT !.pc = "cl_init"]]
                /\ console' = <<>>
           ELSE IF collection
           THEN /\ client' = client
                /\ hs' = [hs EXCEPT ![h] = [call EXCEPT !.pc = "cl_count"]]
                /\ console' = <<>>
           ELSE /\ client' = client
                /\ ClearFailed(h, call)
                /\ console' = <<"[VectorDB] Error clearing memories:">>
    /\ UNCHANGED <<conversationCache, currentSummary, collection, store, now>>

ClearAllMemoriesInitOk(h) ==
    /\ hs[h].pc = "cl_init"
    /\ collection' = TRUE
    /\ hs' = [hs EXCEPT ![h].pc = "cl_count"]
    /\ console' = <<>>
    /\ UNCHANGED <<conversationCache, currentSummary, client, store, now>>

ClearAllMemoriesInitFail(h) ==
    /\ hs[h].pc = "cl_init"
    /\ ClearFailed(h, hs[h])
    /\ console' = <<"[VectorDB] Error initializing Chroma:",
                    "[VectorDB] Error clearing memories:">>
    /\ UNCHANGED <<conversationCache, currentSummary, client, collection, store, now>>

\* collection.count() returned
ClearAllMemoriesCountOk(h) ==
    /\ hs[h].pc = "cl_count"
    /\ LET count == Len(store)
       IN  IF count = 0
           THEN ClearReturns(h, 0)
           ELSE hs' = [hs EXCEPT ![h].pc = "cl_get", ![h].count = count]
    /\ console' = <<>>
    /\ UNCHANGED <<conversationCache, currentSummary, client, collection, store, now>>

ClearAllMemoriesCountFail(h) ==
    /\ hs[h].pc = "cl_count"
    /\ ClearFailed(h, hs[h])
    /\ console' = <<"[VectorDB] Error clearing memories:">>
    /\ UNCHANGED <<conversationCache, currentSummary, client, collection, store, now>>

\* collection.get() returned the ids
ClearAllMemoriesGetOk(h) ==
    /\ hs[h].pc = "cl_get"
    /\ LET ids == IdsOf(store)
       IN  IF Len(ids) > 0
           THEN hs' = [hs EXCEPT ![h].pc = "cl_delete", ![h].ids = ids]
           ELSE ClearReturns(h, 0)
    /\ console' = <<>>
    /\ UNCHANGED <<conversationCache, currentSummary, client, collection, store, now>>

ClearAllMemoriesGetFail(h) ==
    /\ hs[h].pc = "cl_get"
    /\ ClearFailed(h, hs[h])
    /\ console' = <<"[VectorDB] Error clearing memories:">>
    /\ UNCHANGED <<conversationCache, currentSummary, client, collection, store, now>>

\* collection.delete({ids}) returned: the call returns the count it read first
ClearAllMemoriesDeleteOk(h) ==
    /\ hs[h].pc = "cl_delete"
    /\ store' = Remaining(store, hs[h].ids)
    /\ ClearReturns(h, hs[h].count)
    /\ console' = <<>>
    /\ UNCHANGED <<conversationCache, currentSummary, client, collection, now>>

ClearAllMemoriesDeleteFail(h) ==
    /\ hs[h].pc = "cl_delete"
    /\ ClearFailed(h, hs[h])
    /\ console' = <<"[VectorDB] Error clearing memories:">>
    /\ UNCHANGED <<conversationCache, currentSummary, client, collection, store, now>>

(***************************************************************************)
(* Specifications                                                          *)
(***************************************************************************)
Return(h) ==
    \/ \E content \in ReformulateOutputs : ReformulateOk(h, content)
    \/ ReformulateFail(h)
    \/ SearchInitOk(h)
    \/ SearchInitFail(h)
    \/ SearchEmbedOk(h)
    \/ SearchEmbedFail(h)
    \/ SearchQueryOk(h)
    \/ SearchQueryFail(h)
    \/ \E reply \in Replies : GenerateOk(h, reply)
    \/ \E status \in ErrorStatuses : GenerateFail(h, status)
    \/ \E newSummary \in Summaries : SummarizeOk(h, newSummary)
    \/ \E status \in ErrorStatuses : SummarizeFail(h, status)
    \/ \E residualSummary \in Summaries : ResidualOk(h, residualSummary)
    \/ ResidualFail(h)
    \/ \E content \in ExtractOutputs : ExtractOk(h, content)
    \/ ExtractFail(h)
    \/ StoreEmbedOk(h)
    \/ StoreEmbedFail(h)
    \/ StoreAddOk(h)
    \/ StoreAddFail(h)
    \/ PromptAfterProcess(h)

\* readline emits a line whenever one arrives, also while handlers are pending
Next ==
    \/ \E h \in Handlers, line \in Lines : ProcessInput(h, line)
    \/ \E h \in Handlers : Return(h)

Spec == Init /\ [][Next]_vars

\* a session whose user waits for the prompt before typing the next line
SeqNext ==
    \/ \E h \in Handlers, line \in Lines : Active = {} /\ ProcessInput(h, line)
    \/ \E h \in Handlers : Return(h)

SeqSpec == Init /\ [][SeqNext]_vars

\* the callback of the clear command's question resumes: a pending call
\* returns, or its first await had nothing to wait for
ClearReturn(h) ==
    \/ ClearReady(h)
    \/ ClearInitOk(h)
    \/ ClearInitFail(h)
    \/ ClearCountOk(h)
    \/ ClearCountFail(h)
    \/ ClearGetOk(h)
    \/ ClearGetFail(h)
    \/ ClearDeleteOk(h)
    \/ ClearDeleteFail(h)

\* the memories command resumes in the same way
MemoriesReturn(h) ==
    \/ MemoriesReady(h)
    \/ MemoriesInit(h)
    \/ MemoriesCount(h)
    \/ MemoriesGet(h)

\* a session in which the store is also cleared, and whose user waits for the
\* prompt before typing the next line; the answer to the question of the
\* clear command is the line typed after it; the input can end at any time,
\* with or without a last line that has no line feed
ReplNext ==
    \/ \E h \in Handlers, line \in CommandLines : Active = {} /\ ProcessInput(h, line)
    \/ \E h \in Handlers, line \in CommandLines : Answer(h, line)
    \/ \E h \in Handlers : Return(h)
    \/ \E h \in Handlers : ClearReturn(h)
    \/ \E h \in Handlers : MemoriesReturn(h)
    \/ \E line \in CommandLines : LastLine(line)
    \/ Close

ReplSpec == Init /\ [][ReplNext]_vars

\* the same session when every pending external call returns at some time,
\* with a result or with an error, unless the process has exited before
LiveReplSpec ==
    /\ Init
    /\ [][ReplNext]_vars
    /\ WF_vars(\E h \in Handlers : Return(h) \/ ClearReturn(h) \/ MemoriesReturn(h))

\* a caller invokes one of the exported functions
ApiCall(h) ==
    \/ \E summaries \in SummaryLists : ProcessConversations(h, summaries)
    \/ \E chunks \in Batches : StoreMemories(h, chunks)
    \/ \E query \in Queries, limit \in Limits : SearchMemories(h, query, limit)
    \/ GetAllMemories(h)
    \/ ClearAllMemories(h)
    \/ InitializeChroma(h)
    \/ \E recentContext \in RecentContexts :
          ReformulateQuery(h, <<"h", "i">>, recentContext)

\* the pending Generation Service call of a caller returns
ProcessorReturn(h) ==
    \/ \E content \in ExtractOutputs : ProcessConversationsOk(h, content)
    \/ ProcessConversationsFail(h)
    \/ \E content \in ReformulateOutputs : ReformulateQueryOk(h, content)
    \/ ReformulateQueryFail(h)

\* a pending call of a caller inside the vector store functions returns
StoreReturn(h) ==
    \/ InitializeChromaOk(h)
    \/ InitializeChromaFail(h)
    \/ SearchMemoriesInitOk(h)
    \/ SearchMemoriesInitFail(h)
    \/ SearchMemoriesEmbedOk(h)
    \/ SearchMemoriesEmbedFail(h)
    \/ SearchMemoriesQueryOk(h)
    \/ SearchMemoriesQueryFail(h)
    \/ StoreMemoriesInitOk(h)
    \/ StoreMemoriesInitFail(h)
    \/ StoreMemoriesEmbedOk(h)
    \/ StoreMemoriesEmbedFail(h)
    \/ StoreMemoriesAddOk(h)
    \/ StoreMemoriesAddFail(h)
    \/ GetAllMemoriesInitOk(h)
    \/ GetAllMemoriesInitFail(h)
    \/ GetAllMemoriesCountOk(h)
    \/ GetAllMemoriesCountFail(h)
    \/ GetAllMemoriesGetOk(h)
    \/ GetAllMemoriesGetFail(h)
    \/ ClearAllMemoriesInitOk(h)
    \/ ClearAllMemoriesInitFail(h)
    \/ ClearAllMemoriesCountOk(h)
    \/ ClearAllMemoriesCountFail(h)
    \/ ClearAllMemoriesGetOk(h)
    \/ ClearAllMemoriesGetFail(h)
    \/ ClearAllMemoriesDeleteOk(h)
    \/ ClearAllMemoriesDeleteFail(h)

\* the calls of a session that shares the store with another session
SessionCall(h) ==
    \/ StoreMemories(h, <<ChunkB, ChunkA>>)
    \/ \E limit \in {TEST_LIMIT, -1} : SearchMemories(h, FactB, limit)
    \/ GetAllMemories(h)
    \/ ClearAllMemories(h)
    \/ InitializeChroma(h)

\* two sessions use the vector store; their calls interleave at the external
\* calls
ApiNext ==
    \/ \E h \in Handlers : SessionCall(h)
    \/ \E h \in Handlers : StoreReturn(h)
    \/ Tick

ApiSpec == Init /\ [][ApiNext]_vars

\* the script alone: one caller, one call at a time
ApiSeqNext ==
    \/ ApiCall(FirstCaller)
    \/ ProcessorReturn(FirstCaller)
    \/ StoreReturn(FirstCaller)
    \/ Tick

ApiSeqSpec == Init /\ [][ApiSeqNext]_vars

(***************************************************************************)
(* Properties                                                              *)
(***************************************************************************)
Printed(line) == \E i \in DOMAIN console : console[i] = line

PrintedNext(line) == \E i \in DOMAIN console' : console'[i] = line

\* the turns the last cache command listed
ListedTurns == Cardinality({i \in DOMAIN console : console[i] = "N. [role] content"})

IsPrefix(s, t) == Len(s) <= Len(t) /\ SubSeq(t, 1, Len(s)) = s

\* C1: the buffer a cache command shows between two operations holds at most
\* CACHE_LIMIT turns.
C1_ShownBufferWithinLimit == ListedTurns <= CACHE_LIMIT

\* the handler that takes the step, when a pending handler takes it
Steps(h) == hs[h].pc # "idle" /\ hs'[h] # hs[h]

ProcessPcs == {"residual", "extract", "store_init", "store_embed", "store_add"}

SearchPcs == {"search_init", "search_embed", "search_query"}

\* C2: an append that brings the buffer to CACHE_LIMIT turns or more starts a
\* rotation, and when its summarization call succeeds the buffer becomes the
\* single seeded turn holding the merged RollingSummary, which is not shorter
\* than it was.
C2_RotationSeedsBuffer ==
    [][\A h \in Handlers :
        /\ (hs[h].pc = "generate" /\ Steps(h) /\ ~PrintedNext("Error in chat:")
              /\ Len(conversationCache') >= CACHE_LIMIT)
           => hs'[h].pc = "summarize"
        /\ (hs[h].pc = "summarize" /\ Steps(h) /\ ~PrintedNext("Error in chat:"))
           => /\ conversationCache' =
                     <<[role |-> "user", content |-> SEED_PREFIX \o currentSummary']>>
              /\ Len(currentSummary') >= Len(currentSummary)
              /\ IsPrefix(currentSummary, currentSummary')]_vars

C2_Witness ==
    /\ Printed("[Conversation summarized and cache reset]")
    /\ Len(conversationCache) = 1
    /\ Len(currentSummary) > Len(SEPARATOR)

\* C3: a rotation whose summarization call fails changes neither the buffer nor
\* RollingSummary, and the failure is printed as an error of the chat turn.
C3_FailedRotationKeepsState ==
    [][\A h \in Handlers :
        (hs[h].pc = "summarize" /\ Steps(h)
           /\ PrintedNext("[MemoryProcessor] Error summarizing conversation:"))
        => /\ conversationCache' = conversationCache
           /\ currentSummary' = currentSummary
           /\ PrintedNext("Error in chat:")
           /\ hs'[h].pc = "idle"]_vars

C3_Witness ==
    /\ Printed("[MemoryProcessor] Error summarizing conversation:")
    /\ Printed("Error in chat:")
    /\ Len(conversationCache) >= CACHE_LIMIT
    /\ currentSummary # <<>>

\* the step is the end of a process command whose store insert succeeded
InsertSucceeded(h) ==
    /\ hs[h].pc = "store_add"
    /\ Steps(h)
    /\ Len(store') = Len(store) + Len(hs[h].chunks)
    /\ Len(hs[h].chunks) > 0

\* C4: in every step a non-empty RollingSummary stays as it is, is extended at
\* its end, or becomes empty in the step of a process command whose store
\* insert succeeded.
C4_SummaryGrowsOrIsProcessed ==
    [][currentSummary # <<>> =>
        \/ currentSummary' = currentSummary
        \/ currentSummary' # <<>> /\ IsPrefix(currentSummary, currentSummary')
        \/ currentSummary' = <<>> /\ \E h \in Handlers : InsertSucceeded(h)]_vars

\* a summary that grew by a second rotation, after an earlier process command
\* had stored its chunks and cleared
C4_Witness ==
    /\ store # <<>>
    /\ IsPrefix(<<"s">> \o SEPARATOR, currentSummary)

\* C5: a step of a process command changes RollingSummary or the buffer only
\* when it is the step in which the store insert returned successfully, and
\* then it empties both; the steps that build the snapshot change neither, and
\* when extraction yields no chunk the command ends with no insert issued.
C5_ClearOnlyAfterInsert ==
    [][\A h \in Handlers :
        /\ ((hs[h].pc \in ProcessPcs \/ hs'[h].pc \in ProcessPcs) /\ hs'[h] # hs[h])
           => \/ /\ conversationCache' = conversationCache
                 /\ currentSummary' = currentSummary
              \/ /\ InsertSucceeded(h)
                 /\ conversationCache' = <<>>
                 /\ currentSummary' = <<>>
        /\ (hs[h].pc = "extract" /\ Steps(h) /\ PrintedNext("No chunks created"))
           => /\ hs'[h].pc = "idle"
              /\ store' = store
              /\ conversationCache' = conversationCache
              /\ currentSummary' = currentSummary]_vars

C5_Witness ==
    /\ Printed("No chunks created")
    /\ currentSummary # <<>>
    /\ Len(conversationCache) > 1
    /\ store # <<>>

\* C6: a process command whose extraction or store insert fails leaves
\* RollingSummary and the buffer as they are and ends, and no step taken while
\* the extraction call is pending changes them on behalf of that command.
C6_FailedProcessKeepsState ==
    [][\A h \in Handlers :
        /\ (hs[h].pc \in {"extract", "store_init", "store_embed", "store_add"}
              /\ Steps(h) /\ PrintedNext("Error processing summaries:"))
           => /\ conversationCache' = conversationCache
              /\ currentSummary' = currentSummary
              /\ store' = store
              /\ hs'[h].pc = "idle"
        /\ (hs[h].pc = "extract" /\ Steps(h))
           => /\ conversationCache' = conversationCache
              /\ currentSummary' = currentSummary]_vars

C6_Witness ==
    /\ Printed("[VectorDB] Error storing memories:")
    /\ Printed("Error processing summaries:")
    /\ currentSummary # <<>>
    /\ Len(conversationCache) > 1

\* C7: at most one line handler of the session is running at any time.
C7_OneOperationAtATime == Cardinality(Active) <= 1

\* C8: while a rotation waits for its summarization call no turn is added to
\* the buffer.
C8_NoAppendDuringRotation ==
    [][(\E h \in Handlers : hs[h].pc = "summarize")
        => Len(conversationCache') <= Len(conversationCache)]_vars

\* C9: when initialization, the embedding call or the backend query fails,
\* searchMemories returns no memories without raising: the chat turn goes on to
\* its reply call, and the reply is appended to the buffer.
C9_SearchFailureDegrades ==
    [][\A h \in Handlers :
        /\ (hs[h].pc \in SearchPcs /\ Steps(h)
              /\ PrintedNext("[VectorDB] Error searching memories:"))
           => /\ hs'[h].pc = "generate"
              /\ hs'[h].mems = <<>>
              /\ ~PrintedNext("Error in chat:")
        /\ (hs[h].pc = "generate" /\ Steps(h) /\ ~PrintedNext("Error in chat:"))
           => \E reply \in Replies :
                 conversationCache' =
                     conversationCache \o <<[role |-> "user", content |-> hs[h].input],
                                            [role |-> "assistant", content |-> reply]>>]_vars

C9_Witness ==
    /\ Printed("[VectorDB] Error generating embedding:")
    /\ Printed("[VectorDB] Error searching memories:")
    /\ \E h \in Handlers : hs[h].pc = "generate" /\ hs[h].mems = <<>>
    /\ collection

\* C10: when the reformulation call fails, the search query is the input itself
\* and the chat turn goes on to the search with no error of the turn.
C10_ReformulateFallsBack ==
    [][\A h \in Handlers :
        (hs[h].pc = "reformulate" /\ Steps(h)
           /\ PrintedNext("[Query Reformulation] Error:"))
        => /\ hs'[h].query = hs[h].input
           /\ hs'[h].input = hs[h].input
           /\ hs'[h].pc \in SearchPcs
           /\ ~PrintedNext("Error in chat:")]_vars

C10_Witness ==
    /\ Printed("[Query Reformulation] Error:")
    /\ \E h \in Handlers :
         hs[h].pc \in SearchPcs /\ hs[h].query = hs[h].input /\ hs[h].input # <<>>
    /\ Len(conversationCache) > 1

(***************************************************************************)
(* Properties of the exported functions                                    *)
(***************************************************************************)
\* the step in which a call of op by caller h ends
Ends(h, op) == hs'[h] # hs[h] /\ hs'[h].pc = "idle" /\ hs'[h].op = op

StorePcs == {"st_init", "st_embed", "st_add"}

\* the records at the end of the collection that hold the chunks, one each
WrittenAtEnd(records, chunks) ==
    /\ Len(records) >= Len(chunks)
    /\ \A i \in DOMAIN chunks :
         /\ records[Len(records) - Len(chunks) + i].document = chunks[i].narrative
         /\ records[Len(records) - Len(chunks) + i].metadata = chunks[i].metadata

\* C11: a storeMemories call in which an embedding call or the backend write
\* fails ends by throwing, with the store as it was; no step of the call before
\* its write has returned changes the store, so an embedding failure leaves
\* no chunk of the batch written; and a call that returns normally has added
\* one record per chunk of its batch.
C11_InsertFailsAsAWhole ==
    [][\A h \in Handlers :
        /\ (hs[h].pc \in StorePcs /\ Steps(h)
              /\ PrintedNext("[VectorDB] Error storing memories:"))
           => /\ hs'[h].outcome = "threw"
              /\ hs'[h].pc = "idle"
              /\ store' = store
        /\ (hs[h].pc \in StorePcs /\ Steps(h) /\ store' # store)
           => hs[h].pc = "st_add" /\ hs'[h].outcome = "returned"
        /\ (Ends(h, "storeMemories") /\ hs'[h].outcome = "returned")
           => /\ Len(store') = Len(store) + Len(hs'[h].chunks)
              /\ SubSeq(store', 1, Len(store)) = store
              /\ WrittenAtEnd(store', hs'[h].chunks)
              /\ ~PrintedNext("[VectorDB] Error storing memories:")]_vars

\* the embedding of the second chunk of a batch failed, and nothing was stored
C11_Witness ==
    /\ Printed("[VectorDB] Error generating embedding:")
    /\ \E h \in Handlers :
         /\ hs[h].op = "storeMemories"
         /\ hs[h].outcome = "threw"
         /\ hs[h].embedded = 1
         /\ Len(hs[h].chunks) = 2
    /\ store = <<>>

\* C12: no two records of the store have the same id.
C12_StoredIdsDistinct ==
    \A i, j \in DOMAIN store : i # j => store[i].id # store[j].id

\* C13: for a caller whose calls follow one another with no other writer, a
\* clear that returns normally returns the number of records the store held
\* and leaves the store empty; a clear that directly follows a successful clear
\* returns 0; and a getAllMemories that directly follows a successful clear
\* returns the empty list.
C13_ClearTwiceThenEmpty ==
    [][\A h \in Handlers :
        /\ (Ends(h, "clearAllMemories") /\ hs'[h].outcome = "returned")
           => /\ hs'[h].deleted = Len(store)
              /\ store' = <<>>
              /\ (hs'[h].prev[1] = "clearAllMemories" /\ hs'[h].prev[2] = "returned")
                 => hs'[h].deleted = 0
        /\ (Ends(h, "getAllMemories")
              /\ hs'[h].prev[1] = "clearAllMemories" /\ hs'[h].prev[2] = "returned")
           => /\ hs'[h].outcome = "returned"
              /\ hs'[h].ret = <<>>
              /\ store' = <<>>]_vars

\* a second clear returned 0 directly after a clear that had deleted records
C13_Witness ==
    \E h \in Handlers :
        /\ hs[h].pc = "idle"
        /\ hs[h].op = "clearAllMemories"
        /\ hs[h].outcome = "returned"
        /\ hs[h].deleted = 0
        /\ hs[h].prev[1] = "clearAllMemories"
        /\ hs[h].prev[2] = "returned"
        /\ hs[h].prev[3] > 1

\* C14: the number a clear returns is the number of records its delete removed
\* from the store.
C14_ClearReturnsDeletedCount ==
    [][\A h \in Handlers :
        (hs[h].pc = "cl_delete" /\ Steps(h) /\ hs'[h].outcome = "returned")
        => hs'[h].deleted = Len(store) - Len(store')]_vars

\* C15: for the script, which starts with a clear and then stores its chunks,
\* a getAllMemories whose backend calls succeed returns one memory per chunk
\* stored since the clear, in the order stored, each with the narrative and
\* the metadata of its chunk.
C15_ListReturnsWhatWasStored ==
    [][\A h \in Handlers :
        (Ends(h, "getAllMemories") /\ hs'[h].outcome = "returned"
           /\ hs[h].cleared
           /\ ~PrintedNext("[VectorDB] Error getting all memories:"))
        => /\ Len(hs'[h].ret) = Len(hs[h].sent)
           /\ \A i \in DOMAIN hs[h].sent :
                /\ hs'[h].ret[i].narrative = hs[h].sent[i].narrative
                /\ hs'[h].ret[i].metadata = hs[h].sent[i].metadata]_vars

\* after a clear, three chunks stored by two calls were listed
C15_Witness ==
    \E h \in Handlers :
        /\ hs[h].pc = "idle"
        /\ hs[h].op = "getAllMemories"
        /\ hs[h].outcome = "returned"
        /\ hs[h].cleared
        /\ hs[h].prev[1] = "storeMemories"
        /\ Len(hs[h].sent) = 3
        /\ Len(hs[h].ret) = 3
        /\ hs[h].ret[1].narrative = FactA
        /\ hs[h].ret[2].narrative = FactB

\* the distances of the results do not decrease along the list
AscendingDistance(results) ==
    \A i, j \in DOMAIN results : i < j => results[i].distance <= results[j].distance

\* no record of the collection is nearer to the query than a returned result
\* unless it is returned too: the results are the count nearest records
NearestOf(results, records, query) ==
    /\ \A i \in DOMAIN results :
         \E j \in DOMAIN records :
            /\ results[i].narrative = records[j].document
            /\ results[i].metadata = records[j].metadata
            /\ results[i].distance = Distance(Embed(query), records[j].embedding)
    /\ \A i \in DOMAIN results :
         Cardinality({j \in DOMAIN records :
                        Distance(Embed(query), records[j].embedding)
                          < results[i].distance}) < i

\* C16: a searchMemories(query, limit) call returns at most limit results, as
\* many as the store has when it has fewer, in ascending order of distance, and
\* they are the nearest records of the store; a call that fails returns none.
C16_SearchWithinLimitInOrder ==
    [][\A h \in Handlers :
        Ends(h, "searchMemories")
        => /\ hs'[h].outcome = "returned"
           /\ Len(hs'[h].ret) <= hs[h].limit
           /\ AscendingDistance(hs'[h].ret)
           /\ NearestOf(hs'[h].ret, store, hs[h].query)
           /\ IF PrintedNext("[VectorDB] Error searching memories:")
              THEN hs'[h].ret = <<>>
              ELSE Len(hs'[h].ret) =
                     (IF Len(store) < hs[h].limit THEN Len(store) ELSE hs[h].limit)]_vars

\* a search with the limit of runTest returned two of three stored memories,
\* the nearest first, which is not the first stored
C16_Witness ==
    \E h \in Handlers :
        /\ hs[h].pc = "idle"
        /\ hs[h].op = "searchMemories"
        /\ hs[h].outcome = "returned"
        /\ Len(store) = 3
        /\ Len(hs[h].ret) = TEST_LIMIT
        /\ hs[h].ret[1].narrative # store[1].document
        /\ hs[h].ret[1].distance < hs[h].ret[2].distance

\* the number of maximal runs of non-whitespace characters of a text
Words(text) ==
    Cardinality({i \in DOMAIN text :
                    /\ ~IsSpace(text[i])
                    /\ (i = 1 \/ IsSpace(text[i - 1]))})

WithinWordRange(text) == Words(text) >= MIN_WORDS /\ Words(text) <= MAX_WORDS

\* C17: every chunk processConversations has returned to the process command,
\* and every memory the process command has written to the store, has a
\* narrative of at least 10 and at most 200 whitespace-separated words.
C17_ChunksWithinWordRange ==
    /\ \A h \in Handlers : \A i \in DOMAIN hs[h].chunks :
          WithinWordRange(hs[h].chunks[i].narrative)
    /\ \A i \in DOMAIN store : WithinWordRange(store[i].document)

\* the store holds a narrative of exactly 10 words and one of exactly 200,
\* taken from an answer that also had fragments of 2, 9 and 201 words
C17_Witness ==
    /\ \E i \in DOMAIN store : store[i].document = FactA
    /\ \E i \in DOMAIN store : store[i].document = LongestFact
    /\ Words(FactA) = MIN_WORDS
    /\ Words(LongestFact) = MAX_WORDS

\* C18: processConversations called with an empty list of summaries returns
\* an empty list in the same step, without reaching the request to the
\* Generation Service.
C18_NoSummariesNoRequest ==
    [][\A h \in Handlers :
        (/\ hs[h].pc = "idle"
         /\ hs'[h] # hs[h]
         /\ hs'[h].op = "processConversations"
         /\ hs'[h].ctxs = <<>>)
        => /\ hs'[h].pc = "idle"
           /\ hs'[h].outcome = "returned"
           /\ hs'[h].ret = <<>>]_vars

\* processConversations has returned for an empty list of summaries
C18_Witness ==
    \E h \in Handlers :
        /\ hs[h].pc = "idle"
        /\ hs[h].op = "processConversations"
        /\ hs[h].ctxs = <<>>
        /\ hs[h].outcome = "returned"
        /\ hs[h].ret = <<>>

\* C19: when the request to the Generation Service fails, processConversations
\* ends by throwing and hands no chunk to its caller.
C19_FailedExtractionYieldsNothing ==
    [][\A h \in Handlers :
        (/\ hs[h].pc = "pc_extract"
         /\ Steps(h)
         /\ PrintedNext("[MemoryProcessor] Error processing conversations:"))
        => /\ hs'[h].pc = "idle"
           /\ hs'[h].outcome = "threw"
           /\ hs'[h].ret = <<>>]_vars

\* a processConversations call for one summary has thrown
C19_Witness ==
    \E h \in Handlers :
        /\ hs[h].pc = "idle"
        /\ hs[h].op = "processConversations"
        /\ hs[h].ctxs # <<>>
        /\ hs[h].outcome = "threw"
        /\ Printed("[MemoryProcessor] Error processing conversations:")

\* the positions at which a caller waits for client.getOrCreateCollection
InitPcs ==
    {"search_init", "store_init", "clear_init", "mem_init",
     "ic_init", "sm_init", "st_init", "ga_init", "cl_init"}

Initializing == {h \in Handlers : hs[h].pc \in InitPcs}

\* C20: the client is constructed at most once and the collection is obtained
\* at most once: a caller starts an initialization only in the step that
\* constructs the client, the client once constructed stays, at most one
\* caller ever waits for the collection, the handle is set only by that
\* caller's step, and a handle once obtained is never replaced; an operation
\* that starts when the client exists starts no initialization.
C20_InitializedAtMostOnce ==
    [][/\ client => client'
       /\ collection => collection'
       /\ Cardinality(Initializing) <= 1
       /\ \A h \in Handlers :
            (hs[h].pc \notin InitPcs /\ hs'[h].pc \in InitPcs)
            => (~client /\ client' /\ ~collection /\ hs[h].pc = "idle")
       /\ (collection' # collection)
            => \E h \in Handlers : hs[h].pc \in InitPcs /\ hs'[h].pc \notin InitPcs
       /\ \A h \in Handlers :
            (client /\ hs[h].pc = "idle" /\ hs'[h].pc # "idle")
            => (hs'[h].pc \notin InitPcs /\ collection' = collection)]_vars

\* both callers have completed operations on the one handle obtained by the
\* first of them, and the store holds what was written through it
C20_Witness ==
    /\ client
    /\ collection
    /\ store # <<>>
    /\ \A h \in Handlers :
         /\ hs[h].pc = "idle"
         /\ hs[h].op # "none"
         /\ hs[h].outcome = "returned"
    /\ \E h, g \in Handlers : hs[h].op # hs[g].op

(***************************************************************************)
(* Properties of the chat turn, the commands and the initialization        *)
(***************************************************************************)
ChatPcs == {"reformulate", "generate", "summarize"} \cup SearchPcs

\* the positions a chat turn can take directly after position pc: the call
\* that is pending next, or "idle" when the turn has ended
ChatSuccessors(pc) ==
    CASE pc = "reformulate" -> {"search_init", "search_embed"}
      [] pc = "search_init" -> {"search_embed", "generate"}
      [] pc = "search_embed" -> {"search_query", "generate"}
      [] pc = "search_query" -> {"generate"}
      [] pc = "generate" -> {"summarize", "idle"}
      [] pc = "summarize" -> {"idle"}
      [] OTHER -> {}

\* C21: a chat turn waits for one external call at a time, in the order
\* reformulation, search (initialization, embedding, query), reply, and then
\* summarization; it starts with the reformulation; the exchange is appended
\* in the step in which the reply returns and in no step before; and the
\* summarization is called only when the buffer then holds CACHE_LIMIT turns
\* or more.
C21_ChatStepsInOrder ==
    [][\A h \in Handlers :
        /\ (hs[h].pc \in ChatPcs /\ hs'[h] # hs[h])
           => hs'[h].pc \in ChatSuccessors(hs[h].pc)
        /\ (hs[h].pc \notin ChatPcs /\ hs'[h].pc \in ChatPcs)
           => hs[h].pc = "idle" /\ hs'[h].pc = "reformulate"
        /\ (hs[h].pc \in ({"reformulate"} \cup SearchPcs) /\ hs'[h] # hs[h])
           => conversationCache' = conversationCache /\ currentSummary' = currentSummary
        /\ (hs[h].pc = "generate" /\ hs'[h] # hs[h] /\ hs'[h].pc = "summarize")
           => /\ Len(conversationCache') >= CACHE_LIMIT
              /\ Len(conversationCache') = Len(conversationCache) + 2
        /\ (hs[h].pc = "generate" /\ hs'[h] # hs[h] /\ hs'[h].pc = "idle"
              /\ ~PrintedNext("Error in chat:"))
           => /\ Len(conversationCache') < CACHE_LIMIT
              /\ Len(conversationCache') = Len(conversationCache) + 2]_vars

\* a chat turn has gone through reformulation, search and reply and waits for
\* its summarization, while the collection is in use
C21_Witness ==
    \E h \in Handlers :
        /\ hs[h].pc = "summarize"
        /\ Len(conversationCache) >= CACHE_LIMIT
        /\ collection

ClearPcs == {"clear_ready", "clear_init", "clear_count", "clear_get", "clear_delete"}

\* C22: the store changes only in the step in which the insert of a process
\* command returns, which adds records, and in the step in which the delete of
\* a confirmed clear returns, which removes records; no step of a chat turn
\* changes the store; and the insert and the delete are reached only from a
\* process line and from a confirmed question of a clear line, never from a
\* chat turn.
C22_StoreWrittenByCommandsOnly ==
    [][/\ (store' # store)
          => \E h \in Handlers :
                /\ Steps(h)
                /\ \/ /\ hs[h].pc = "store_add"
                      /\ store' = store \o NewRecords(hs[h].ids, hs[h].chunks)
                   \/ /\ hs[h].pc = "clear_delete"
                      /\ Len(store') < Len(store)
       /\ \A h \in Handlers :
            /\ ((hs[h].pc \in ChatPcs \/ hs'[h].pc \in ChatPcs) /\ hs'[h] # hs[h])
               => store' = store
            /\ (hs[h].pc \notin ProcessPcs /\ hs'[h].pc \in ProcessPcs)
               => hs[h].pc = "idle"
            /\ (hs[h].pc \notin ClearPcs /\ hs'[h].pc \in ClearPcs)
               => hs[h].pc = "question"
            /\ (hs[h].pc # "question" /\ hs'[h].pc = "question")
               => hs[h].pc = "idle"
            /\ (hs[h].pc = "question" /\ hs'[h] # hs[h]
                  /\ PrintedNext("Cancelled. No memories were deleted."))
               => store' = store /\ hs'[h].pc = "idle"]_vars

\* a confirmed clear has just emptied a store that a process command had
\* filled, and the buffer holds chat turns made since that process command
C22_Witness ==
    /\ Printed("[VectorDB] Cleared N memories from database")
    /\ store = <<>>
    /\ Len(conversationCache) >= 2
    /\ currentSummary = <<>>

SearchCallPcs == {"sm_init", "sm_embed", "sm_query"}

\* C23: no searchMemories call with a negative limit is ever waiting for the
\* initialization, the embedding of its query or the backend query.
C23_NegativeLimitRejectedEagerly ==
    \A h \in Handlers : hs[h].pc \in SearchCallPcs => hs[h].limit >= 0

ClearCallPcs == {"cl_init", "cl_count", "cl_get", "cl_delete"}

\* C24: a clearAllMemories call in which the initialization, the count, the
\* listing of the ids or the delete fails ends by throwing to its caller,
\* with no number returned and the store as it was; a call that returns a
\* number has printed no error; and the call reports its failure exactly
\* when one of its steps failed.
C24_ClearFailurePropagates ==
    [][\A h \in Handlers :
        /\ ((hs[h].pc \in ClearCallPcs \/ hs[h].pc = "idle") /\ hs'[h] # hs[h]
              /\ hs'[h].op = "clearAllMemories"
              /\ PrintedNext("[VectorDB] Error clearing memories:"))
           => /\ hs'[h].pc = "idle"
              /\ hs'[h].outcome = "threw"
              /\ hs'[h].deleted = 0
              /\ store' = store
        /\ (Ends(h, "clearAllMemories") /\ hs'[h].outcome = "returned")
           => ~PrintedNext("[VectorDB] Error clearing memories:")
        /\ (Ends(h, "clearAllMemories") /\ hs'[h].outcome = "threw")
           => PrintedNext("[VectorDB] Error clearing memories:")]_vars

\* a clear failed while records were stored: the call threw, it returned no
\* number, and the records are still stored
C24_Witness ==
    /\ Printed("[VectorDB] Error clearing memories:")
    /\ Len(store) >= 2
    /\ \E h \in Handlers :
         /\ hs[h].pc = "idle"
         /\ hs[h].op = "clearAllMemories"
         /\ hs[h].outcome = "threw"
         /\ hs[h].deleted = 0

\* C25: in the step in which the summarization call of a rotation returns a
\* summary, RollingSummary becomes that summary when it was empty, and when it
\* was not, what it was, then two newline characters, then the summary.
C25_RotationMergesSummary ==
    [][\A h \in Handlers :
        (hs[h].pc = "summarize" /\ Steps(h) /\ ~PrintedNext("Error in chat:"))
        => \E newSummary \in Summaries :
              /\ currentSummary = <<>> => currentSummary' = newSummary
              /\ currentSummary # <<>>
                 => currentSummary' = currentSummary \o <<"\n", "\n">> \o newSummary]_vars

\* a second rotation has put its summary after the first one's
C25_Witness ==
    /\ Printed("[Conversation summarized and cache reset]")
    /\ currentSummary = <<"s", "\n", "\n", "s">>

\* C26: the context text reformulateQuery puts into its request has one line
\* per turn for the last CONTEXT_TURNS turns it was given (all of them when
\* there are fewer), in their order, each line the role, a colon and the
\* content of its turn; no earlier turn is in it, and when no turn was given
\* it holds no turn but the words 'No recent context'.
C26_ContextIsLastFourTurns ==
    \A h \in Handlers :
        hs[h].op = "reformulateQuery"
        => LET recent == hs[h].recent
               n == Len(recent)
               k == IF n < 4 THEN n ELSE 4
               lines == SplitOn(hs[h].context, "\n")
           IN  /\ k = 0 => hs[h].context =
                              <<"N", "o", " ", "r", "e", "c", "e", "n", "t", " ",
                                "c", "o", "n", "t", "e", "x", "t">>
               /\ k > 0 =>
                    /\ Len(lines) = k
                    /\ \A i \in 1..k :
                         lines[i] =
                            (IF recent[n - k + i].role = "user"
                             THEN <<"u", "s", "e", "r">>
                             ELSE <<"a", "s", "s", "i", "s", "t", "a", "n", "t">>)
                            \o <<":", " ">> \o recent[n - k + i].content

\* reformulateQuery was given six turns, made its request with the last four
\* and returned
C26_Witness ==
    \E h \in Handlers :
        /\ hs[h].pc = "idle"
        /\ hs[h].op = "reformulateQuery"
        /\ hs[h].outcome = "returned"
        /\ Len(hs[h].recent) = 6
        /\ Len(SplitOn(hs[h].context, "\n")) = 4

\* the entries of a list without those that occurred earlier in it
RECURSIVE Distinct(_)
Distinct(words) ==
    IF words = <<>> THEN <<>>
    ELSE LET before == Distinct(SubSeq(words, 1, Len(words) - 1))
             last == words[Len(words)]
         IN  IF \E i \in DOMAIN before : before[i] = last
             THEN before ELSE Append(before, last)

\* the first three distinct lower-cased words of a narrative that are longer
\* than five characters
DistinctTopics(narrative) ==
    LET words == SplitWs(ToLowerCase(narrative))
        IsLong(word) == Len(word) > 5
        long == Distinct(SelectSeq(words, IsLong))
    IN  SubSeq(long, 1, IF Len(long) < 3 THEN Len(long) ELSE 3)

\* C27: every chunk processConversations has returned has as its topics the
\* first three distinct words of its narrative that are longer than five
\* characters, lower-cased and joined by a comma and a space, and has no
\* topics field when its narrative has no such word.
C27_TopicsAreFirstDistinctLongWords ==
    \A h \in Handlers :
        (hs[h].op = "processConversations" /\ hs[h].outcome = "returned")
        => \A i \in DOMAIN hs[h].ret :
              LET chunk == hs[h].ret[i]
                  expected == DistinctTopics(chunk.narrative)
              IN  IF expected = <<>>
                  THEN "topics" \notin DOMAIN chunk.metadata
                  ELSE /\ "topics" \in DOMAIN chunk.metadata
                       /\ chunk.metadata.topics = Join(expected, <<",", " ">>)

\* the positions of a caller after its initializeChroma call has returned
\* normally
AfterInitPcs ==
    {"sm_embed", "sm_query", "st_embed", "st_add", "ga_count", "ga_get",
     "cl_count", "cl_get", "cl_delete"}

\* C28: a caller whose initializeChroma call has returned normally has a
\* collection handle that is not null.
C28_InitializedHandleUsable ==
    \A h \in Handlers :
        /\ hs[h].pc \in AfterInitPcs => collection
        /\ (hs[h].op = "initializeChroma" /\ hs[h].outcome = "returned")
           => hs[h].ret = <<"memories">>

\* the synthetic turn of a rotation is not dialogue
IsDialogue(turn) == ~IsPrefix(SEED_PREFIX, turn.content)

\* every turn of the buffer was read by the summarization call whose input is
\* given: the buffer holds no dialogue, or it is a beginning of that input
AllSummarized(cache, input) ==
    \/ SelectSeq(cache, IsDialogue) = <<>>
    \/ IsPrefix(cache, input)

\* C29: when a rotation replaces the buffer by the seeded turn, and when a
\* process command empties the buffer after its insert, every dialogue turn
\* the buffer held was in the input of the summarization call that handler
\* made, which returned a summary.
C29_NoTurnDroppedUnsummarized ==
    [][\A h \in Handlers :
        /\ (hs[h].pc = "summarize" /\ Steps(h) /\ ~PrintedNext("Error in chat:"))
           => AllSummarized(conversationCache, hs[h].summarized)
        /\ (hs[h].pc = "store_add" /\ Steps(h) /\ conversationCache' = <<>>
              /\ ~PrintedNext("Error processing summaries:"))
           => AllSummarized(conversationCache, hs[h].summarized)]_vars

\* the RollingSummary a process command put into the list it passed to the
\* extraction: the first entry, unless the list holds the residual summary only
PassedSummary(h) ==
    LET residuals == IF hs[h].summarized # <<>> THEN 1 ELSE 0
    IN  IF Len(hs[h].ctxs) - residuals = 1 THEN hs[h].ctxs[1] ELSE <<>>

\* C30: when a process command empties RollingSummary after its insert, the
\* text it removes is the RollingSummary it passed to the extraction.
C30_ClearedSummaryWasProcessed ==
    [][\A h \in Handlers :
        (hs[h].pc = "store_add" /\ Steps(h) /\ currentSummary' = <<>>
           /\ ~PrintedNext("Error processing summaries:"))
        => currentSummary = PassedSummary(h)]_vars


(***************************************************************************)
(* Properties of a failed reply, of the shape of the buffer, of the prompt *)
(* and of the confirmation of the clear command                            *)
(***************************************************************************)
\* C31: the step in which the reply call of a chat turn fails changes neither
\* the buffer nor RollingSummary and ends the turn without a summarization
\* call; and no step of the turn before it, from the dispatch of the line to
\* the pending reply call, changes the buffer or RollingSummary either.
C31_FailedReplyKeepsState ==
    [][\A h \in Handlers :
        /\ (hs[h].pc = "generate" /\ Steps(h) /\ PrintedNext("Error in chat:"))
           => /\ conversationCache' = conversationCache
              /\ currentSummary' = currentSummary
              /\ hs'[h].pc = "idle"
              /\ ~PrintedNext("[Cache limit reached, summarizing conversation...]")
        /\ (hs'[h].pc \in ({"reformulate", "generate"} \cup SearchPcs)
              /\ hs'[h] # hs[h])
           => /\ conversationCache' = conversationCache
              /\ currentSummary' = currentSummary]_vars

\* the reply call of a turn has just failed on a buffer that the exchange
\* would have brought to CACHE_LIMIT turns
C31_Witness ==
    /\ Printed("Error in chat:")
    /\ ~Printed("[MemoryProcessor] Error summarizing conversation:")
    /\ Len(conversationCache) = CACHE_LIMIT - 2
    /\ Active = {}

\* C32: in a session whose lines are handled one after the other, whenever
\* RollingSummary is not empty the buffer is not empty and its first turn is
\* the user turn whose content is 'Previous conversation context: ' followed
\* by RollingSummary as it is now.
C32_SummaryIsSeeded ==
    currentSummary # <<>>
    => /\ Len(conversationCache) >= 1
       /\ conversationCache[1] =
              [role |-> "user", content |-> SEED_PREFIX \o currentSummary]

\* memories were stored and the state reset by a process command, the
\* conversation went on to a new rotation, and exchanges have been appended
\* behind its seeded turn
C32_Witness ==
    /\ store # <<>>
    /\ currentSummary # <<>>
    /\ Len(conversationCache) >= 3
    /\ Active = {}

\* the inputs handleChat can be called with, and the queries a reformulation
\* can give
ChatInputs == {Trim(line) : line \in Lines}

SearchQueries == {Trim(content) : content \in ReformulateOutputs}

\* the turns of the buffer behind its seeded turn, if it has one
Exchanges(cache) == IF Len(cache) % 2 = 1 THEN Tail(cache) ELSE cache

\* an optional seeded turn, then (user, assistant) pairs; each user turn of a
\* pair holds an input of handleChat and no reformulated query
PairedBuffer(cache) ==
    /\ Len(cache) % 2 = 1
          => /\ cache[1].role = "user"
             /\ IsPrefix(SEED_PREFIX, cache[1].content)
    /\ \A i \in DOMAIN Exchanges(cache) :
          LET turn == Exchanges(cache)[i]
          IN  IF i % 2 = 1
              THEN /\ turn.role = "user"
                   /\ turn.content \in ChatInputs \ SearchQueries
              ELSE /\ turn.role = "assistant"
                   /\ turn.content \in Replies

\* C33: in a session whose lines are handled one after the other, whenever no
\* operation is in progress the buffer is an optional seeded turn followed by
\* complete (user, assistant) pairs, each user turn directly followed by its
\* reply; and the step in which a reply arrives appends the input the turn was
\* called with, not its search query, and after it the reply.
C33_BufferIsSeedThenPairs ==
    /\ [](Active = {} => PairedBuffer(conversationCache))
    /\ [][\A h \in Handlers :
            (hs[h].pc = "generate" /\ Steps(h) /\ ~PrintedNext("Error in chat:"))
            => \E reply \in Replies :
                  conversationCache' = conversationCache \o
                      <<[role |-> "user", content |-> hs[h].input],
                        [role |-> "assistant", content |-> reply]>>]_vars

\* between two operations the buffer holds a seeded turn and two exchanges
\* behind it
C33_Witness ==
    /\ Active = {}
    /\ Len(conversationCache) = 5
    /\ IsPrefix(SEED_PREFIX, conversationCache[1].content)
    /\ conversationCache[4].content = <<"h", "i">>

\* C34: when every pending external call returns at some time, every line is
\* followed by a prompt: a line handled in one step is followed by the prompt
\* in that step, the step that ends the handling of a line or of the answer to
\* the question of the clear command writes the prompt, and a handler that
\* has not finished leads to a prompt, unless the process exits before (by
\* the exit command or at the end of its input).
C34_EveryLinePrompted ==
    /\ [][(hs' = hs /\ console' # console) => PrintedNext(PROMPT)]_vars
    /\ [][\A h \in Handlers :
            (hs[h].pc # "idle" /\ hs'[h].pc = "idle") => PrintedNext(PROMPT)]_vars
    /\ ((\E h \in Handlers : hs[h].pc \notin {"idle", "question"})
           ~> (Printed(PROMPT) \/ hs = Exited))

\* C35: the callback of the clear command calls the backend, constructs the
\* client or leaves a call pending only when the line typed as the answer,
\* trimmed and lower-cased, is 'confirm'; records are removed only by the
\* delete of a callback whose answer was such a line; and an answer that is
\* cancelled leaves the store, the client and the handle as they were. The
\* steps judged are those taken while the question is pending, the end of
\* the input with a last line among them.
C35_ClearNeedsConfirmation ==
    [][\A h \in Handlers :
        /\ (hs[h].pc = "question" /\ hs'[h] # hs[h]
              /\ (hs'[h].pc \notin {"idle", "exited"} \/ client' # client
                    \/ collection' # collection \/ store' # store))
           => /\ ToLowerCase(Trim(hs'[h].input)) = <<"c", "o", "n", "f", "i", "r", "m">>
              /\ hs'[h].pc \in ClearPcs
        /\ (hs'[h].pc \in ClearPcs /\ hs'[h] # hs[h])
           => ToLowerCase(Trim(hs'[h].input)) = <<"c", "o", "n", "f", "i", "r", "m">>
        /\ (Steps(h) /\ Len(store') < Len(store))
           => /\ hs[h].pc = "clear_delete"
              /\ ToLowerCase(Trim(hs[h].input)) = <<"c", "o", "n", "f", "i", "r", "m">>
        /\ (hs[h].pc = "question" /\ hs'[h] # hs[h]
              /\ PrintedNext("Cancelled. No memories were deleted."))
           => /\ store' = store
              /\ client' = client
              /\ collection' = collection
              /\ hs'[h].pc = "idle"]_vars

====
